---- MODULE Spec2Model ----
(***************************************************************************)
(* A model of the OpenMM-ONNX plugin: the OnnxForce descriptor, the        *)
(* OnnxForceImpl engine that is built from it (initialize / computeForce)  *)
(* and the OnnxForceProxy serialization codec.                             *)
(*                                                                         *)
(* Conventions.                                                            *)
(*  - std::vector is a sequence; C++ index i is sequence index i+1.        *)
(*  - A double is an integer (a count of double-precision units); the      *)
(*    values a float can hold are the even ones, and the cast (float) x    *)
(*    rounds to the nearest even integer, ties to the even quotient.       *)
(*  - A Vec3 is a 3-tuple.                                                 *)
(*  - An exception is a record; NoError stands for a normal return.        *)
(***************************************************************************)
EXTENDS Integers, Sequences, FiniteSets, TLC

\* ------------------------------------------------------------------ bounds
\* Number of particles of the host System.
NumParticles == 3
\* Longest particle-index list handed to setParticleIndices.
MaxSubset == 2
\* Most global parameters / extra inputs a descriptor is given.
MaxParams == 2
MaxInputs == 2

\* ------------------------------------------------------------- value sets
Particles == 0..(NumParticles - 1)
\* Indices a caller may pass: the valid ones, one below and one above.
IndexVals == (-1)..NumParticles
Providers == {"Default", "CPU", "CUDA", "TensorRT", "ROCm"}
GpuProviders == {"TensorRT", "CUDA", "ROCm"}
PropertyNames == {"DeviceIndex", "UseGraphs"}

Range(s) == {s[i] : i \in 1..Len(s)}
SeqsUpTo(S, n) == UNION {[1..k -> S] : k \in 0..n}

\* --------------------------------------------------------------- numbers
\* (float) x for a double x: round to nearest representable, ties to even.
FloatCast(x) ==
    IF x % 2 = 0 THEN x
    ELSE IF (x - 1) % 4 = 0 THEN x - 1 ELSE x + 1

\* What a read outside an allocation yields when it does not fault.
Garbage == <<666, 666, 666>>

\* -------------------------------------------------------------- exceptions
NoError == [type |-> "none", msg |-> "", input |-> "", expected |-> 0, found |-> 0]
OpenMMException(m) ==
    [type |-> "OpenMMException", msg |-> m, input |-> "", expected |-> 0, found |-> 0]
OrtException(m) ==
    [type |-> "Ort::Exception", msg |-> m, input |-> "", expected |-> 0, found |-> 0]
\* A fault (segmentation violation, abort) ends the process.
Fault(m) ==
    [type |-> "fault", msg |-> m, input |-> "", expected |-> 0, found |-> 0]

VARIABLES
    \* --- the descriptor (class OnnxForce), referenced by the engine as `owner`
    owner,
    \* --- the engine (class OnnxForceImpl)
    implState,        \* "Uninitialized", "Initialized", "Failed", "Crashed"
    session,          \* the Ort::Session: [created, providers]
    particleIndices,
    positionVec,
    paramVec,
    boxVectors,
    inputNames,
    inputTensors,
    integerInputs,
    floatInputs,
    outputTensors,
    \* --- the host (Context / ContextImpl) and the caller's vectors
    positions,
    forces,
    parameters,       \* the Context's parameter table: name -> value
    box,
    \* --- ONNX Runtime
    available,        \* execution providers installed
    probed,           \* Create*ProviderOptions calls made, in order
    runInputs,        \* the feed of the last session.Run
    runOutputs,       \* the output names of the last session.Run
    nameBlock,        \* storage the bound parameter-name pointers point into
    memoryCorrupted,  \* an out-of-bounds write has happened
    \* --- serialization
    node,
    copy,
    \* --- computeForce calls in progress, one per calling thread
    calls,
    \* --- the last call made and how it ended
    lastCall

vars == <<owner, implState, session, particleIndices, positionVec, paramVec,
          boxVectors, inputNames, inputTensors, integerInputs, floatInputs,
          outputTensors, positions, forces, parameters, box, available, probed,
          runInputs, runOutputs, nameBlock, memoryCorrupted, node, copy, calls,
          lastCall>>

implVars == <<implState, session, particleIndices, positionVec, paramVec,
              boxVectors, inputNames, inputTensors, integerInputs, floatInputs,
              outputTensors, probed, runInputs, runOutputs, memoryCorrupted>>
hostVars == <<positions, forces, parameters, box, available>>
codecVars == <<node, copy>>

Call(op, err, ret) == [op |-> op, thrown |-> err, ret |-> ret]

\* ============================================================== OnnxForce
\* OnnxForce::initProperties with no overrides.
defaultProperties == [n \in PropertyNames |-> IF n = "UseGraphs" THEN "false" ELSE "0"]

\* "OnnxForce: Unknown property '<name>'"
UnknownProperty(name) ==
    [type |-> "OpenMMException", msg |-> "Unknown property", input |-> name,
     expected |-> 0, found |-> 0]

\* An initProperties that takes every key it is given.
initPropertiesOpen(properties) ==
    [thrown |-> NoError,
     value |-> [n \in PropertyNames \cup DOMAIN properties |->
                   IF n \in DOMAIN properties THEN properties[n] ELSE defaultProperties[n]]]

\* OnnxForce::initProperties: [value, thrown].  The map is walked in key order
\* and the first key that is no default ends the walk.
initProperties(properties) ==
    IF \E n \in DOMAIN properties : n \notin PropertyNames
    THEN [thrown |-> UnknownProperty(CHOOSE n \in DOMAIN properties \ PropertyNames : TRUE),
          value |-> defaultProperties]
    ELSE [thrown |-> NoError,
          value |-> [n \in PropertyNames |->
                        IF n \in DOMAIN properties THEN properties[n]
                        ELSE defaultProperties[n]]]

\* OnnxForce::OnnxForce(const vector<uint8_t>& model, properties = {})
OnnxForce(m) ==
    [model |-> m,
     forceGroup |-> 0,
     particleIndices |-> <<>>,
     provider |-> "Default",
     periodic |-> FALSE,
     globalParameters |-> <<>>,
     inputs |-> <<>>,
     properties |-> defaultProperties]

\* A descriptor is constructed in place of the present one: with no property
\* map, and with one.  A constructor that throws leaves no new object.
construct(m) ==
    /\ owner' = OnnxForce(m)
    /\ lastCall' = Call("OnnxForce", NoError, 0)
    /\ UNCHANGED <<implVars, hostVars, codecVars, calls, nameBlock>>

AssignDescriptor(m, r) ==
    /\ owner' = IF r.thrown = NoError THEN [OnnxForce(m) EXCEPT !.properties = r.value]
                ELSE owner
    /\ lastCall' = Call("OnnxForce(properties)", r.thrown, 0)

constructWithProperties(m, properties) ==
    /\ AssignDescriptor(m, initProperties(properties))
    /\ UNCHANGED <<implVars, hostVars, codecVars, calls, nameBlock>>

GlobalParameterInfo(name, defaultValue) == [name |-> name, defaultValue |-> defaultValue]
IntegerInput(name, values, shape) ==
    [type |-> "IntegerInput", name |-> name, values |-> values, shape |-> shape]
FloatInput(name, values, shape) ==
    [type |-> "FloatInput", name |-> name, values |-> values, shape |-> shape]

getNumGlobalParameters(o) == Len(o.globalParameters)
getNumInputs(o) == Len(o.inputs)
\* ASSERT_VALID_INDEX(index, vector)
ValidIndex(index, v) == index >= 0 /\ index < Len(v)

setExecutionProvider(provider) ==
    /\ owner' = [owner EXCEPT !.provider = provider]
    /\ lastCall' = Call("setExecutionProvider", NoError, 0)
    /\ UNCHANGED <<implVars, hostVars, codecVars, calls, nameBlock>>

setParticleIndices(indices) ==
    /\ owner' = [owner EXCEPT !.particleIndices = indices]
    /\ lastCall' = Call("setParticleIndices", NoError, 0)
    /\ UNCHANGED <<implVars, hostVars, codecVars, calls, nameBlock>>

setUsesPeriodicBoundaryConditions(periodic) ==
    /\ owner' = [owner EXCEPT !.periodic = periodic]
    /\ lastCall' = Call("setUsesPeriodicBoundaryConditions", NoError, 0)
    /\ UNCHANGED <<implVars, hostVars, codecVars, calls, nameBlock>>

\* Force::setForceGroup of the base class.
setForceGroup(group) ==
    /\ owner' = [owner EXCEPT !.forceGroup = group]
    /\ lastCall' = Call("setForceGroup", NoError, 0)
    /\ UNCHANGED <<implVars, hostVars, codecVars, calls, nameBlock>>

\* push_back may move the vector's elements to new storage; pointers an engine
\* took to the old elements' names (c_str of a short string) are then left
\* pointing at freed memory that still holds the old bytes.
\* An addGlobalParameter that puts the new parameter in front.
addGlobalParameterFirst(name, defaultValue) ==
    /\ owner' = [owner EXCEPT !.globalParameters =
                     <<GlobalParameterInfo(name, defaultValue)>> \o @]
    /\ lastCall' = Call("addGlobalParameter", NoError, Len(owner.globalParameters))
    /\ UNCHANGED <<implVars, hostVars, codecVars, calls, nameBlock>>

addGlobalParameter(name, defaultValue) ==
    /\ owner' = [owner EXCEPT !.globalParameters =
                     Append(@, GlobalParameterInfo(name, defaultValue))]
    /\ lastCall' = Call("addGlobalParameter", NoError, Len(owner.globalParameters))
    /\ \E moved \in BOOLEAN :
          nameBlock' = IF moved /\ nameBlock.live /\ implState = "Initialized"
                             /\ Len(owner.globalParameters) > 0
                       THEN [live |-> FALSE,
                             bytes |-> [i \in 1..Len(owner.globalParameters) |->
                                           owner.globalParameters[i].name]]
                       ELSE nameBlock
    /\ UNCHANGED <<implVars, hostVars, codecVars, calls>>

\* A setGlobalParameterName without the index test: a write outside the
\* vector is taken to change nothing.
setGlobalParameterNameUnchecked(index, name) ==
    /\ owner' = IF ValidIndex(index, owner.globalParameters)
                THEN [owner EXCEPT !.globalParameters[index + 1].name = name]
                ELSE owner
    /\ lastCall' = Call("setGlobalParameterName", NoError, 0)
    /\ UNCHANGED <<implVars, hostVars, codecVars, calls, nameBlock>>

setGlobalParameterName(index, name) ==
    /\ IF ValidIndex(index, owner.globalParameters)
       THEN /\ owner' = [owner EXCEPT !.globalParameters[index + 1].name = name]
            /\ lastCall' = Call("setGlobalParameterName", NoError, 0)
       ELSE /\ owner' = owner
            /\ lastCall' = Call("setGlobalParameterName",
                                OpenMMException("Index out of range"), 0)
    /\ UNCHANGED <<implVars, hostVars, codecVars, calls, nameBlock>>

setGlobalParameterDefaultValue(index, defaultValue) ==
    /\ IF ValidIndex(index, owner.globalParameters)
       THEN /\ owner' = [owner EXCEPT
                           !.globalParameters[index + 1].defaultValue = defaultValue]
            /\ lastCall' = Call("setGlobalParameterDefaultValue", NoError, 0)
       ELSE /\ owner' = owner
            /\ lastCall' = Call("setGlobalParameterDefaultValue",
                                OpenMMException("Index out of range"), 0)
    /\ UNCHANGED <<implVars, hostVars, codecVars, calls, nameBlock>>

getGlobalParameterName(index) ==
    /\ lastCall' = IF ValidIndex(index, owner.globalParameters)
                   THEN Call("getGlobalParameterName", NoError,
                             owner.globalParameters[index + 1].name)
                   ELSE Call("getGlobalParameterName",
                             OpenMMException("Index out of range"), "")
    /\ UNCHANGED <<owner, implVars, hostVars, codecVars, calls, nameBlock>>

getGlobalParameterDefaultValue(index) ==
    /\ lastCall' = IF ValidIndex(index, owner.globalParameters)
                   THEN Call("getGlobalParameterDefaultValue", NoError,
                             owner.globalParameters[index + 1].defaultValue)
                   ELSE Call("getGlobalParameterDefaultValue",
                             OpenMMException("Index out of range"), 0)
    /\ UNCHANGED <<owner, implVars, hostVars, codecVars, calls, nameBlock>>

addInput(input) ==
    /\ owner' = [owner EXCEPT !.inputs = Append(@, input)]
    /\ lastCall' = Call("addInput", NoError, Len(owner.inputs))
    /\ UNCHANGED <<implVars, hostVars, codecVars, calls, nameBlock>>

\* getInput(index): the input itself, or no reference when it throws.
NoInput == [type |-> "", name |-> "", values |-> <<>>, shape |-> <<>>]
getInput(index) ==
    /\ lastCall' = IF ValidIndex(index, owner.inputs)
                   THEN Call("getInput", NoError, owner.inputs[index + 1])
                   ELSE Call("getInput", OpenMMException("Index out of range"), NoInput)
    /\ UNCHANGED <<owner, implVars, hostVars, codecVars, calls, nameBlock>>

\* getInput(index).setValues(values) / the writable getValues() reference.
setValues(index, values) ==
    /\ IF ValidIndex(index, owner.inputs)
       THEN /\ owner' = [owner EXCEPT !.inputs[index + 1].values = values]
            /\ lastCall' = Call("setValues", NoError, 0)
       ELSE /\ owner' = owner
            /\ lastCall' = Call("setValues", OpenMMException("Index out of range"), 0)
    /\ UNCHANGED <<implVars, hostVars, codecVars, calls, nameBlock>>

\* getInput(index).setShape(shape)
setShape(index, shape) ==
    /\ IF ValidIndex(index, owner.inputs)
       THEN /\ owner' = [owner EXCEPT !.inputs[index + 1].shape = shape]
            /\ lastCall' = Call("setShape", NoError, 0)
       ELSE /\ owner' = owner
            /\ lastCall' = Call("setShape", OpenMMException("Index out of range"), 0)
    /\ UNCHANGED <<implVars, hostVars, codecVars, calls, nameBlock>>

\* A setProperty that does not look the name up first.
setPropertyOpen(name, value) ==
    /\ owner' = [owner EXCEPT !.properties =
                    [n \in DOMAIN owner.properties \cup {name} |->
                        IF n = name THEN value ELSE owner.properties[n]]]
    /\ lastCall' = Call("setProperty", NoError, 0)
    /\ UNCHANGED <<implVars, hostVars, codecVars, calls, nameBlock>>

setProperty(name, value) ==
    /\ IF name \in DOMAIN owner.properties
       THEN /\ owner' = [owner EXCEPT !.properties[name] = value]
            /\ lastCall' = Call("setProperty", NoError, 0)
       ELSE /\ owner' = owner
            /\ lastCall' = Call("setProperty", UnknownProperty(name), 0)
    /\ UNCHANGED <<implVars, hostVars, codecVars, calls, nameBlock>>

\* ========================================================== OnnxForceImpl
\* The width of `int` (validateInput multiplies the dimensions in an int).
IntMax == 2147483647
IntMin == (-IntMax) - 1

\* Byte k (0 the lowest) of the two's complement representation of a.
Limb(a, k) == (a \div (2 ^ (8 * k))) % (2 ^ 8)
\* The sum of the byte products that land on byte k of a * b.
Column(a, b, k) ==
    IF k = 0 THEN Limb(a, 0) * Limb(b, 0)
    ELSE IF k = 1 THEN Limb(a, 0) * Limb(b, 1) + Limb(a, 1) * Limb(b, 0)
    ELSE IF k = 2
    THEN Limb(a, 0) * Limb(b, 2) + Limb(a, 1) * Limb(b, 1) + Limb(a, 2) * Limb(b, 0)
    ELSE Limb(a, 0) * Limb(b, 3) + Limb(a, 1) * Limb(b, 2)
         + Limb(a, 2) * Limb(b, 1) + Limb(a, 3) * Limb(b, 0)
\* Byte k of the product before reduction: its column and the carry into it.
Carried(a, b, k) ==
    IF k = 0 THEN Column(a, b, 0)
    ELSE IF k = 1 THEN Column(a, b, 1) + (Column(a, b, 0) \div (2 ^ 8))
    ELSE IF k = 2
    THEN Column(a, b, 2) + ((Column(a, b, 1) + (Column(a, b, 0) \div (2 ^ 8))) \div (2 ^ 8))
    ELSE Column(a, b, 3)
         + ((Column(a, b, 2)
             + ((Column(a, b, 1) + (Column(a, b, 0) \div (2 ^ 8))) \div (2 ^ 8)))
            \div (2 ^ 8))
\* The int whose bytes are b3 b2 b1 b0.
FromBytes(b3, b2, b1, b0) ==
    (IF b3 >= 2 ^ 7 THEN b3 - 2 ^ 8 ELSE b3) * (2 ^ 24) + b2 * (2 ^ 16) + b1 * (2 ^ 8) + b0

\* a * b in 32-bit two's complement: the low four bytes of the product.
WrapMul(a, b) ==
    FromBytes(Carried(a, b, 3) % (2 ^ 8), Carried(a, b, 2) % (2 ^ 8),
              Carried(a, b, 1) % (2 ^ 8), Carried(a, b, 0) % (2 ^ 8))

Abs(a) == IF a < 0 THEN -a ELSE a

\* Whether the mathematical product a * b lies outside the range of int.
MulOverflows(a, b) ==
    IF a = 0 \/ b = 0 THEN FALSE
    ELSE IF a = IntMin THEN b # 1
    ELSE IF b = IntMin THEN a # 1
    ELSE IF (a < 0) = (b < 0)
         THEN Abs(a) > IntMax \div Abs(b)
         ELSE Abs(a) > (IntMax \div Abs(b))
                         + (IF IntMax % Abs(b) = Abs(b) - 1 THEN 1 ELSE 0)

\* The loop `expected *= i` over the shape: the value held by `expected` and
\* whether some multiplication overflowed on the way.
RECURSIVE ShapeProduct(_, _)
ShapeProduct(shape, acc) ==
    IF Len(shape) = 0 THEN acc
    ELSE ShapeProduct(Tail(shape),
                      [value |-> WrapMul(acc.value, Head(shape)),
                       overflow |-> acc.overflow \/ MulOverflows(acc.value, Head(shape))])

ShapeMismatch(name, expected, size) ==
    [type |-> "OpenMMException", msg |-> "Incorrect length for input",
     input |-> name, expected |-> expected, found |-> size]

\* OnnxForceImpl::validateInput: the exception it throws, or NoError.  Signed
\* overflow is undefined: the build either wraps or traps, chosen by `traps`.
CompareLength(name, p, size, traps) ==
    IF p.overflow /\ traps THEN Fault("signed integer overflow")
    ELSE IF p.value # size THEN ShapeMismatch(name, p.value, size)
    ELSE NoError
validateInput(name, shape, size, traps) ==
    CompareLength(name, ShapeProduct(shape, [value |-> 1, overflow |-> FALSE]), size, traps)

\* OnnxForceImpl::getDefaultParameters: a std::map filled in declaration order,
\* so a later parameter of the same name replaces an earlier one.
getDefaultParameters(o) ==
    LET names == {o.globalParameters[i].name : i \in 1..Len(o.globalParameters)}
        last(n) == CHOOSE i \in 1..Len(o.globalParameters) :
                      /\ o.globalParameters[i].name = n
                      /\ \A j \in (i + 1)..Len(o.globalParameters) :
                            o.globalParameters[j].name # n
    IN  [n \in names |-> o.globalParameters[last(n)].defaultValue]

\* An effective particle list that counts the particles from 1.
EffectiveIndicesFromOne(o, numParticles) ==
    IF Len(o.particleIndices) = 0
    THEN [i \in 1..numParticles |-> i]
    ELSE o.particleIndices

\* The effective particle list recorded by initialize.
EffectiveIndices(o, numParticles) ==
    IF Len(o.particleIndices) = 0
    THEN [i \in 1..numParticles |-> i - 1]
    ELSE o.particleIndices

\* The provider blocks with CUDA tried first.
ProviderOrderCudaFirst == <<"CUDA", "TensorRT", "ROCm">>
\* The three provider blocks of initialize, in source order.
ProviderOrder == <<"TensorRT", "CUDA", "ROCm">>

\* The option keys and values handed to Update*ProviderOptions.
ProviderOptions(p, deviceIndex, enableGraph) ==
    IF p = "TensorRT"
    THEN <<<<"device_id", deviceIndex>>, <<"trt_cuda_graph_enable", enableGraph>>>>
    ELSE IF p = "CUDA"
    THEN <<<<"device_id", deviceIndex>>, <<"use_tf32", "0">>,
           <<"enable_cuda_graph", enableGraph>>>>
    ELSE <<<<"device_id", deviceIndex>>, <<"enable_hip_graph", enableGraph>>>>

\* Every block runs, whatever provider was requested.
BlockRunsAlways(p, provider) == TRUE
\* Whether the block of provider p runs for the requested provider.
BlockRuns(p, provider) == provider = p \/ provider = "Default"

\* A provider block that skips a missing provider even when it was asked for.
ProviderBlockLenient(st, p, provider, avail, deviceIndex, enableGraph, optionsOk) ==
    IF st.thrown # NoError \/ ~BlockRuns(p, provider) THEN st
    ELSE IF p \in avail
         THEN IF optionsOk
              THEN [st EXCEPT !.probed = Append(@, p),
                              !.chain = Append(@, [name |-> p,
                                   options |-> ProviderOptions(p, deviceIndex, enableGraph)])]
              ELSE [st EXCEPT !.probed = Append(@, p),
                              !.thrown = OrtException("UpdateProviderOptions")]
         ELSE [st EXCEPT !.probed = Append(@, p)]

\* A provider block that insists on every provider it tries.
ProviderBlockStrict(st, p, provider, avail, deviceIndex, enableGraph, optionsOk) ==
    IF st.thrown # NoError \/ ~BlockRuns(p, provider) THEN st
    ELSE IF p \in avail
         THEN IF optionsOk
              THEN [st EXCEPT !.probed = Append(@, p),
                              !.chain = Append(@, [name |-> p,
                                   options |-> ProviderOptions(p, deviceIndex, enableGraph)])]
              ELSE [st EXCEPT !.probed = Append(@, p),
                              !.thrown = OrtException("UpdateProviderOptions")]
         ELSE [st EXCEPT !.probed = Append(@, p),
                         !.thrown = OpenMMException("execution provider is not available")]

\* One provider block: st = [chain, probed, thrown].
ProviderBlock(st, p, provider, avail, deviceIndex, enableGraph, optionsOk) ==
    IF st.thrown # NoError \/ ~BlockRuns(p, provider) THEN st
    ELSE IF p \in avail
         THEN IF optionsOk
              THEN [st EXCEPT !.probed = Append(@, p),
                              !.chain = Append(@, [name |-> p,
                                   options |-> ProviderOptions(p, deviceIndex, enableGraph)])]
              ELSE [st EXCEPT !.probed = Append(@, p),
                              !.thrown = OrtException("UpdateProviderOptions")]
         ELSE IF provider = p
              THEN [st EXCEPT !.probed = Append(@, p),
                              !.thrown = OpenMMException("execution provider is not available")]
              ELSE [st EXCEPT !.probed = Append(@, p)]

RECURSIVE SelectProviders(_, _, _, _, _, _, _)
SelectProviders(st, order, provider, avail, deviceIndex, enableGraph, optionsOk) ==
    IF Len(order) = 0 THEN st
    ELSE SelectProviders(
             ProviderBlock(st, Head(order), provider, avail, deviceIndex,
                           enableGraph, optionsOk),
             Tail(order), provider, avail, deviceIndex, enableGraph, optionsOk)

Zeros(n) == [i \in 1..n |-> 0]

\* The "Process extra inputs" loop: st = [ints, floats, thrown].
CopyInput(st, in, v) ==
    IF v # NoError THEN [st EXCEPT !.thrown = v]
    ELSE IF in.type = "IntegerInput"
         THEN [st EXCEPT !.ints = Append(@, in)]
         ELSE [st EXCEPT !.floats = Append(@, in)]

RECURSIVE CopyInputs(_, _, _)
CopyInputs(st, ins, traps) ==
    IF Len(ins) = 0 \/ st.thrown # NoError THEN st
    ELSE CopyInputs(
             CopyInput(st, Head(ins),
                       validateInput(Head(ins).name, Head(ins).shape,
                                     Len(Head(ins).values), traps)),
             Tail(ins), traps)

NameLiteral(t) == [kind |-> "literal", text |-> t, index |-> 0]
NamePointer(k, i) == [kind |-> k, text |-> "", index |-> i]
Tensor(elem, shape, buf, i) == [elem |-> elem, shape |-> shape, buf |-> buf, index |-> i]

\* The tensors and names bound for positions, box and global parameters.
BaseTensors(o, m) ==
    <<Tensor("float", <<m, 3>>, "positionVec", 0)>>
    \o (IF o.periodic THEN <<Tensor("float", <<3, 3>>, "boxVectors", 0)>> ELSE <<>>)
    \o [i \in 1..Len(o.globalParameters) |-> Tensor("float", <<1>>, "paramVec", i - 1)]
\* Names bound as if every descriptor were periodic.
BaseNamesWithBox(o) ==
    <<NameLiteral("positions"), NameLiteral("box")>>
    \o [i \in 1..Len(o.globalParameters) |-> NamePointer("globalParameters", i - 1)]
BaseNames(o) ==
    <<NameLiteral("positions")>>
    \o (IF o.periodic THEN <<NameLiteral("box")>> ELSE <<>>)
    \o [i \in 1..Len(o.globalParameters) |-> NamePointer("globalParameters", i - 1)]

\* The tensors and names bound for the engine's copies of the extra inputs.
ExtraTensors(ints, floats) ==
    [i \in 1..Len(ints) |-> Tensor("int", ints[i].shape, "integerInputs", i - 1)]
    \o [i \in 1..Len(floats) |-> Tensor("float", floats[i].shape, "floatInputs", i - 1)]
ExtraNames(ints, floats) ==
    [i \in 1..Len(ints) |-> NamePointer("integerInputs", i - 1)]
    \o [i \in 1..Len(floats) |-> NamePointer("floatInputs", i - 1)]

NoSession == [created |-> FALSE, providers |-> <<>>]
\* The content of memory that was never written.
Uninit == Garbage[1]

\* Which ONNX Runtime call, if any, refuses its arguments during initialize.
OrtFailures == {"none", "UpdateProviderOptions", "Session", "CreateTensor"}

HasNegativeDim(shape) == \E i \in 1..Len(shape) : shape[i] < 0
\* A shape Value::CreateTensor may refuse: a negative dimension, or more
\* elements than an int counts (the buffer cannot hold them).
Refusable(shape) ==
    HasNegativeDim(shape) \/ ShapeProduct(shape, [value |-> 1, overflow |-> FALSE]).overflow

\* How many of the tensors ts are created before Value::CreateTensor refuses
\* one.
NumCreated(ts) ==
    Cardinality({i \in 1..Len(ts) : \A j \in 1..i : ~Refusable(ts[j].shape)})

\* The engine's fields before initialize has bound anything.
Unbound(pI) ==
    [state |-> "Failed", thrown |-> NoError, particleIndices |-> pI,
     probed |-> <<>>, session |-> NoSession, positionVec |-> <<>>,
     paramVec |-> <<>>, inputTensors |-> <<>>, inputNames |-> <<>>,
     integerInputs |-> <<>>, floatInputs |-> <<>>]

\* "Create the session and initialize data structures" and "Process extra
\* inputs", given the outcome cp of the validation loop.
BindTensors(r, o, cp, fails) ==
    IF cp.thrown # NoError
    THEN [r EXCEPT !.thrown = cp.thrown,
                   !.state = IF cp.thrown.type = "fault" THEN "Crashed" ELSE "Failed",
                   !.integerInputs = cp.ints,
                   !.floatInputs = cp.floats]
    ELSE IF fails = "CreateTensor"
            /\ NumCreated(ExtraTensors(cp.ints, cp.floats))
                  < Len(ExtraTensors(cp.ints, cp.floats))
    THEN [r EXCEPT
            !.thrown = OrtException("CreateTensor"),
            !.integerInputs = cp.ints,
            !.floatInputs = cp.floats,
            !.inputTensors = @ \o SubSeq(ExtraTensors(cp.ints, cp.floats), 1,
                                        NumCreated(ExtraTensors(cp.ints, cp.floats))),
            !.inputNames = @ \o SubSeq(ExtraNames(cp.ints, cp.floats), 1,
                                      NumCreated(ExtraTensors(cp.ints, cp.floats)))]
    ELSE [r EXCEPT
            !.state = "Initialized",
            !.integerInputs = cp.ints,
            !.floatInputs = cp.floats,
            !.inputTensors = @ \o ExtraTensors(cp.ints, cp.floats),
            !.inputNames = @ \o ExtraNames(cp.ints, cp.floats)]

\* An initialize that looks at the extra inputs before it selects providers.
CreateSessionAfterInputs(r, o, sel, fails, traps) ==
    IF CopyInputs([ints |-> <<>>, floats |-> <<>>, thrown |-> NoError],
                  o.inputs, traps).thrown # NoError
    THEN [r EXCEPT !.thrown = CopyInputs([ints |-> <<>>, floats |-> <<>>,
                                          thrown |-> NoError], o.inputs, traps).thrown]
    ELSE IF sel.thrown # NoError
    THEN [r EXCEPT !.probed = sel.probed, !.thrown = sel.thrown]
    ELSE [r EXCEPT !.probed = sel.probed, !.state = "Initialized"]

\* The part of initialize after provider selection, given its outcome sel.
CreateSession(r, o, sel, fails, traps) ==
    IF sel.thrown # NoError
    THEN [r EXCEPT !.probed = sel.probed, !.thrown = sel.thrown]
    ELSE IF fails = "Session"
    THEN [r EXCEPT !.probed = sel.probed, !.thrown = OrtException("Session")]
    ELSE BindTensors(
             [r EXCEPT
                !.probed = sel.probed,
                !.session = [created |-> TRUE, providers |-> sel.chain],
                !.positionVec = Zeros(3 * Len(r.particleIndices)),
                !.paramVec = Zeros(getNumGlobalParameters(o)),
                !.inputTensors = BaseTensors(o, Len(r.particleIndices)),
                !.inputNames = BaseNames(o)],
             o,
             CopyInputs([ints |-> <<>>, floats |-> <<>>, thrown |-> NoError],
                        o.inputs, traps),
             fails)

\* An initialize that reads UseGraphs only after the providers were selected.
InitializeResultLate(o, avail, numParticles, fails, traps) ==
    CreateSession(
        Unbound(EffectiveIndices(o, numParticles)), o,
        [SelectProviders([chain |-> <<>>, probed |-> <<>>, thrown |-> NoError],
                         ProviderOrder, o.provider, avail,
                         o.properties["DeviceIndex"],
                         IF o.properties["UseGraphs"] = "true" THEN "1" ELSE "0",
                         fails # "UpdateProviderOptions")
            EXCEPT !.thrown = IF @ = NoError /\ o.properties["UseGraphs"] \notin {"true", "false"}
                              THEN OpenMMException("Illegal value for UseGraphs")
                              ELSE @],
        fails, traps)

\* Everything OnnxForceImpl::initialize computes from the descriptor o, the
\* installed providers and the behaviour of the runtime; `state` is where the
\* engine ends and `thrown` the exception that left initialize, if any.
InitializeResult(o, avail, numParticles, fails, traps) ==
    IF o.properties["UseGraphs"] \notin {"true", "false"}
    THEN [Unbound(EffectiveIndices(o, numParticles))
             EXCEPT !.thrown = OpenMMException("Illegal value for UseGraphs")]
    ELSE CreateSession(
             Unbound(EffectiveIndices(o, numParticles)), o,
             SelectProviders([chain |-> <<>>, probed |-> <<>>, thrown |-> NoError],
                             ProviderOrder, o.provider, avail,
                             o.properties["DeviceIndex"],
                             IF o.properties["UseGraphs"] = "true" THEN "1" ELSE "0",
                             fails # "UpdateProviderOptions"),
             fails, traps)

AssignEngine(r) ==
    /\ implState' = r.state
    /\ particleIndices' = r.particleIndices
    /\ probed' = r.probed
    /\ session' = r.session
    /\ positionVec' = r.positionVec
    /\ paramVec' = r.paramVec
    /\ inputTensors' = r.inputTensors
    /\ inputNames' = r.inputNames
    /\ integerInputs' = r.integerInputs
    /\ floatInputs' = r.floatInputs
    /\ lastCall' = Call("initialize", r.thrown, 0)

\* Context creation: the host collects getDefaultParameters() into its
\* parameter table and calls OnnxForceImpl::initialize.
initialize(fails, traps) ==
    /\ implState = "Uninitialized"
    /\ AssignEngine(InitializeResult(owner, available, NumParticles, fails, traps))
    /\ parameters' = getDefaultParameters(owner)
    /\ nameBlock' = [live |-> TRUE, bytes |-> <<>>]
    /\ UNCHANGED <<owner, boxVectors, outputTensors, positions, forces, box,
                   available, runInputs, runOutputs, memoryCorrupted, codecVars, calls>>

\* positions[index]: a read outside the vector yields whatever is there.
PositionAt(pos, index) == IF index \in 0..(Len(pos) - 1) THEN pos[index + 1] ELSE Garbage

\* A gather over the descriptor's present particle list, the buffer sized to it.
GatherOfOwner(pI, pos) ==
    [k \in 1..(3 * Len(EffectiveIndices(owner, Len(pos)))) |->
        FloatCast(PositionAt(pos, EffectiveIndices(owner, Len(pos))[((k - 1) \div 3) + 1])
                     [((k - 1) % 3) + 1])]

\* A gather that ignores the particle list: row i is the position of particle i.
GatherDense(pI, pos) ==
    [k \in 1..(3 * Len(pI)) |->
        FloatCast(PositionAt(pos, (k - 1) \div 3)[((k - 1) % 3) + 1])]

\* The first loop of computeForce: positionVec after the gather.
Gather(pI, pos) ==
    [k \in 1..(3 * Len(pI)) |->
        FloatCast(PositionAt(pos, pI[((k - 1) \div 3) + 1])[((k - 1) % 3) + 1])]

\* boxVectors[3*i+j] = (float) box[i][j]
FlattenBox(b) == [k \in 1..9 |-> FloatCast(b[((k - 1) \div 3) + 1][((k - 1) % 3) + 1])]

\* The global-parameter loop of computeForce, from C++ index i on:
\* st = [paramVec, thrown, oob].  The loop runs over the descriptor's current
\* parameters; a write at or beyond paramVec.size() lands outside the buffer.
WriteParamDefault(st, name, table, i) ==
    IF name \notin DOMAIN table
    THEN [st EXCEPT !.thrown = OpenMMException("invalid parameter name")]
    ELSE IF i < Len(st.paramVec)
         THEN [st EXCEPT !.paramVec[i + 1] = FloatCast(getDefaultParameters(owner)[name])]
         ELSE [st EXCEPT !.oob = TRUE]

WriteParam(st, name, table, i) ==
    IF name \notin DOMAIN table
    THEN [st EXCEPT !.thrown = OpenMMException("invalid parameter name")]
    ELSE IF i < Len(st.paramVec)
         THEN [st EXCEPT !.paramVec[i + 1] = FloatCast(table[name])]
         ELSE [st EXCEPT !.oob = TRUE]

RECURSIVE WriteParams(_, _, _, _)
WriteParams(st, o, table, i) ==
    IF i >= getNumGlobalParameters(o) \/ st.thrown # NoError THEN st
    ELSE WriteParams(WriteParam(st, o.globalParameters[i + 1].name, table, i),
                     o, table, i + 1)

\* The name a bound name pointer reads at session.Run.  `stale` chooses what a
\* pointer into freed storage reads: the old bytes or something else.
ResolveName(entry, o, ints, floats, block, stale) ==
    IF entry.kind = "literal" THEN entry.text
    ELSE IF entry.kind = "integerInputs" THEN ints[entry.index + 1].name
    ELSE IF entry.kind = "floatInputs" THEN floats[entry.index + 1].name
    ELSE IF block.live THEN o.globalParameters[entry.index + 1].name
    ELSE IF stale THEN block.bytes[entry.index + 1]
    ELSE "<garbage>"

\* Tensors bound to the descriptor's own inputs instead of the engine's copies.
TensorDataOfOwner(t, posVec, boxVec, parVec, ints, floats) ==
    IF t.buf = "positionVec" THEN posVec
    ELSE IF t.buf = "boxVectors" THEN boxVec
    ELSE IF t.buf = "paramVec" THEN <<parVec[t.index + 1]>>
    ELSE IF t.buf = "integerInputs"
    THEN SelectSeq(owner.inputs, LAMBDA in : in.type = "IntegerInput")[t.index + 1].values
    ELSE SelectSeq(owner.inputs, LAMBDA in : in.type = "FloatInput")[t.index + 1].values

\* The memory a bound tensor reads at session.Run.
TensorData(t, posVec, boxVec, parVec, ints, floats) ==
    IF t.buf = "positionVec" THEN posVec
    ELSE IF t.buf = "boxVectors" THEN boxVec
    ELSE IF t.buf = "paramVec" THEN <<parVec[t.index + 1]>>
    ELSE IF t.buf = "integerInputs" THEN ints[t.index + 1].values
    ELSE floats[t.index + 1].values

\* What session.Run is handed: one entry per bound name / tensor.
Feed(names, tensors, o, posVec, boxVec, parVec, ints, floats, block, stale) ==
    [k \in 1..Len(names) |->
        [name |-> ResolveName(names[k], o, ints, floats, block, stale),
         elem |-> tensors[k].elem,
         shape |-> tensors[k].shape,
         data |-> TensorData(tensors[k], posVec, boxVec, parVec, ints, floats)]]

\* The model: a potential scale * |r|^2, so forces = -2 * scale * r (the
\* energy is reported in the same units as a float).
ModelScales == {1, 2}
ModelForces(posVec, scale) == [k \in 1..Len(posVec) |-> (-2) * scale * posVec[k]]
ModelEnergy(posVec, scale) == 2 * scale
NoOutput == [energy |-> 0, forces |-> <<>>]
\* const char* outputNames[] = {"energy", "forces"}
outputNames == <<"energy", "forces">>

ForceRow(forceData, i) == <<forceData[3 * i + 1], forceData[3 * i + 2], forceData[3 * i + 3]>>

\* forces[index] = row; a write outside the vector does not change the vector.
StoreForce(f, index, row) ==
    IF index \in 0..(Len(f) - 1) THEN [f EXCEPT ![index + 1] = row] ELSE f

\* A scatter that ignores the particle list: forces[i] = row i.
RECURSIVE ScatterDense(_, _, _, _)
ScatterDense(f, pI, forceData, i) ==
    IF i >= Len(pI) THEN f
    ELSE ScatterDense(StoreForce(f, i, ForceRow(forceData, i)), pI, forceData, i + 1)

\* A scatter in which the first slot of a particle decides.
RECURSIVE ScatterFirstWins(_, _, _, _)
ScatterFirstWins(f, pI, forceData, i) ==
    IF i >= Len(pI) THEN f
    ELSE StoreForce(ScatterFirstWins(f, pI, forceData, i + 1), pI[i + 1],
                    ForceRow(forceData, i))

\* The last loop of computeForce from C++ index i on: forces[particleIndices[i]]
\* = row i.
RECURSIVE Scatter(_, _, _, _)
Scatter(f, pI, forceData, i) ==
    IF i >= Len(pI) THEN f
    ELSE Scatter(StoreForce(f, pI[i + 1], ForceRow(forceData, i)), pI, forceData, i + 1)

OutOfRange(pI, n) == \E i \in 1..Len(pI) : pI[i] \notin 0..(n - 1)

\* A call that asks inference again until it answers.
RunAndScatterRetry(posVec, boxVec, wp, undefined, runs, out, stale) ==
    /\ implState' = implState
    /\ positionVec' = posVec
    /\ boxVectors' = boxVec
    /\ paramVec' = wp.paramVec
    /\ memoryCorrupted' = (memoryCorrupted \/ undefined)
    /\ IF wp.thrown # NoError
       THEN /\ lastCall' = Call("computeForce", wp.thrown, 0)
            /\ UNCHANGED <<runInputs, runOutputs, outputTensors, forces>>
       ELSE /\ runInputs' = Feed(inputNames, inputTensors, owner, posVec, boxVec,
                                 wp.paramVec, integerInputs, floatInputs, nameBlock,
                                 stale)
            /\ runOutputs' = outputNames
            /\ IF FALSE
               THEN /\ lastCall' = Call("computeForce", OrtException("Run"), 0)
                    /\ UNCHANGED <<outputTensors, forces>>
               ELSE /\ outputTensors' = out
                    /\ forces' = Scatter(forces, particleIndices, out.forces, 0)
                    /\ lastCall' = Call("computeForce", NoError, out.energy)

\* The end of computeForce, given the buffers it has filled (wp holds the
\* parameter loop's outcome) and the model's answer `out`.
RunAndScatter(posVec, boxVec, wp, undefined, runs, out, stale) ==
    /\ implState' = implState
    /\ positionVec' = posVec
    /\ boxVectors' = boxVec
    /\ paramVec' = wp.paramVec
    /\ memoryCorrupted' = (memoryCorrupted \/ undefined)
    /\ IF wp.thrown # NoError
       THEN /\ lastCall' = Call("computeForce", wp.thrown, 0)
            /\ UNCHANGED <<runInputs, runOutputs, outputTensors, forces>>
       ELSE /\ runInputs' = Feed(inputNames, inputTensors, owner, posVec, boxVec,
                                 wp.paramVec, integerInputs, floatInputs, nameBlock,
                                 stale)
            /\ runOutputs' = outputNames
            /\ IF ~runs
               THEN /\ lastCall' = Call("computeForce", OrtException("Run"), 0)
                    /\ UNCHANGED <<outputTensors, forces>>
               ELSE /\ outputTensors' = out
                    /\ forces' = Scatter(forces, particleIndices, out.forces, 0)
                    /\ lastCall' = Call("computeForce", NoError, out.energy)

\* An access outside a buffer that faults ends the process.
Crash ==
    /\ implState' = "Crashed"
    /\ lastCall' = Call("computeForce", Fault("access outside a buffer"), 0)
    /\ UNCHANGED <<positionVec, boxVectors, paramVec, runInputs, runOutputs,
                   outputTensors, forces, memoryCorrupted>>

FillAndRun(posVec, wp, runs, scale, faults, stale) ==
    IF (OutOfRange(particleIndices, Len(positions)) \/ wp.oob) /\ faults
    THEN Crash
    ELSE RunAndScatter(posVec,
                       IF owner.periodic THEN FlattenBox(box) ELSE boxVectors,
                       wp,
                       OutOfRange(particleIndices, Len(positions)) \/ wp.oob,
                       runs,
                       [energy |-> ModelEnergy(posVec, scale),
                        forces |-> ModelForces(posVec, scale)],
                       stale)

\* OnnxForceImpl::computeForce.  runs: whether session.Run succeeds; scale: the
\* model's answer; faults: whether an access outside a buffer faults; stale:
\* what a dangling name pointer reads.
computeForce(runs, scale, faults, stale) ==
    /\ implState = "Initialized"
    /\ FillAndRun(Gather(particleIndices, positions),
                  WriteParams([paramVec |-> paramVec, thrown |-> NoError, oob |-> FALSE],
                              owner, parameters, 0),
                  runs, scale, faults, stale)
    /\ UNCHANGED <<owner, session, particleIndices, inputNames, inputTensors,
                   integerInputs, floatInputs, probed, positions, parameters, box,
                   available, nameBlock, codecVars, calls>>

\* A model whose force rows differ from slot to slot even for equal
\* positions: row i is -2 * scale * r_i - 2 * i.
SlotModelForces(posVec, scale) ==
    [k \in 1..Len(posVec) |-> (-2) * scale * posVec[k] - 2 * ((k - 1) \div 3)]

FillAndRunSlotModel(posVec, wp, runs, scale, faults, stale) ==
    IF (OutOfRange(particleIndices, Len(positions)) \/ wp.oob) /\ faults
    THEN Crash
    ELSE RunAndScatter(posVec,
                       IF owner.periodic THEN FlattenBox(box) ELSE boxVectors,
                       wp,
                       OutOfRange(particleIndices, Len(positions)) \/ wp.oob,
                       runs,
                       [energy |-> ModelEnergy(posVec, scale),
                        forces |-> SlotModelForces(posVec, scale)],
                       stale)

\* OnnxForceImpl::computeForce on an engine that holds the slot model.
computeForceSlotModel(runs, scale, faults, stale) ==
    /\ implState = "Initialized"
    /\ FillAndRunSlotModel(Gather(particleIndices, positions),
                           WriteParams([paramVec |-> paramVec, thrown |-> NoError,
                                        oob |-> FALSE],
                                       owner, parameters, 0),
                           runs, scale, faults, stale)
    /\ UNCHANGED <<owner, session, particleIndices, inputNames, inputTensors,
                   integerInputs, floatInputs, probed, positions, parameters, box,
                   available, nameBlock, codecVars, calls>>

\* OnnxForce::createImpl with OnnxForceImpl::OnnxForceImpl, as the Context does
\* when it is created or reinitialized: a new engine, nothing initialized.
createImpl ==
    /\ implState \in {"Initialized", "Failed"}
    /\ implState' = "Uninitialized"
    /\ session' = NoSession
    /\ particleIndices' = <<>>
    /\ positionVec' = <<>>
    /\ paramVec' = <<>>
    /\ boxVectors' = [k \in 1..9 |-> Uninit]
    /\ inputNames' = <<>>
    /\ inputTensors' = <<>>
    /\ integerInputs' = <<>>
    /\ floatInputs' = <<>>
    /\ outputTensors' = NoOutput
    /\ probed' = <<>>
    /\ runInputs' = <<>>
    /\ runOutputs' = <<>>
    /\ nameBlock' = [live |-> TRUE, bytes |-> <<>>]
    /\ lastCall' = Call("createImpl", NoError, 0)
    /\ UNCHANGED <<owner, memoryCorrupted, hostVars, codecVars, calls>>

\* computeForce called by several threads on one engine.  A call is the
\* steps of computeForce in program order; steps of different calls
\* interleave.  A call holds its own arguments (positions, forces) and what it
\* has passed and returned; the buffers and outputTensors are the engine's.
Threads == {1, 2}
NoCall ==
    [pc |-> "idle", positions |-> <<>>, forces |-> <<>>, fed |-> <<>>, energy |-> 0,
     overlapped |-> FALSE]
Running(c) == c.pc \notin {"idle", "done"}

\* A thread enters computeForce(context, positions, forces).
CallBegin(t, pos, f) ==
    /\ implState = "Initialized"
    /\ ~Running(calls[t])
    /\ calls' = [u \in Threads |->
                    IF u = t
                    THEN [NoCall EXCEPT !.pc = "gather", !.positions = pos, !.forces = f,
                                        !.overlapped = \E v \in Threads \ {t} :
                                                           Running(calls[v])]
                    ELSE IF Running(calls[u]) THEN [calls[u] EXCEPT !.overlapped = TRUE]
                    ELSE calls[u]]
    /\ UNCHANGED <<owner, implVars, hostVars, codecVars, nameBlock, lastCall>>

\* A call whose first loop writes nothing.
CallGatherSkip(t) ==
    /\ calls[t].pc = "gather"
    /\ calls' = [calls EXCEPT ![t].pc = "fill"]
    /\ UNCHANGED <<owner, implVars, hostVars, codecVars, nameBlock, lastCall>>

\* The first loop: positionVec from the call's positions.
CallGather(t) ==
    /\ calls[t].pc = "gather"
    /\ positionVec' = Gather(particleIndices, calls[t].positions)
    /\ calls' = [calls EXCEPT ![t].pc = "fill"]
    /\ UNCHANGED <<owner, implState, session, particleIndices, paramVec, boxVectors,
                   inputNames, inputTensors, integerInputs, floatInputs, outputTensors,
                   probed, runInputs, runOutputs, memoryCorrupted, hostVars, codecVars,
                   nameBlock, lastCall>>

\* The box and the global parameters, from the Context.
CallFill(t) ==
    /\ calls[t].pc = "fill"
    /\ boxVectors' = IF owner.periodic THEN FlattenBox(box) ELSE boxVectors
    /\ paramVec' = WriteParams([paramVec |-> paramVec, thrown |-> NoError, oob |-> FALSE],
                               owner, parameters, 0).paramVec
    /\ calls' = [calls EXCEPT ![t].pc = "run"]
    /\ UNCHANGED <<owner, implState, session, particleIndices, positionVec,
                   inputNames, inputTensors, integerInputs, floatInputs, outputTensors,
                   probed, runInputs, runOutputs, memoryCorrupted, hostVars, codecVars,
                   nameBlock, lastCall>>

\* outputTensors = session.Run(...): inference reads the buffers as they are
\* now and its answer is stored in the engine.
CallRun(t) ==
    /\ calls[t].pc = "run"
    /\ runInputs' = Feed(inputNames, inputTensors, owner, positionVec, boxVectors,
                         paramVec, integerInputs, floatInputs, nameBlock, TRUE)
    /\ runOutputs' = outputNames
    /\ outputTensors' = [energy |-> ModelEnergy(positionVec, 1),
                         forces |-> ModelForces(positionVec, 1)]
    /\ calls' = [calls EXCEPT ![t].pc = "scatter", ![t].fed = runInputs']
    /\ UNCHANGED <<owner, implState, session, particleIndices, positionVec, paramVec,
                   boxVectors, inputNames, inputTensors, integerInputs, floatInputs,
                   probed, memoryCorrupted, hostVars, codecVars, nameBlock, lastCall>>

\* The last loop and the return: forces and energy from outputTensors as they
\* are now.
CallScatter(t) ==
    /\ calls[t].pc = "scatter"
    /\ calls' = [calls EXCEPT
                    ![t].pc = "done",
                    ![t].forces = Scatter(@, particleIndices, outputTensors.forces, 0),
                    ![t].energy = outputTensors.energy]
    /\ lastCall' = Call("computeForce", NoError, outputTensors.energy)
    /\ UNCHANGED <<owner, implVars, hostVars, codecVars, nameBlock>>

\* ========================================================= OnnxForceProxy
\* A SerializationNode: a name, its properties and its children in the order
\* they were created.
Node(name, props, children) == [name |-> name, props |-> props, children |-> children]
NoProps == [n \in {} |-> 0]

\* The digits the stream writes for std::hex, by value.
HexDigits == <<"0", "1", "2", "3", "4", "5", "6", "7",
               "8", "9", "a", "b", "c", "d", "e", "f">>
IsHexDigit(c) == \E v \in 1..Len(HexDigits) : HexDigits[v] = c
DigitValue(c) == (CHOOSE v \in 1..Len(HexDigits) : HexDigits[v] = c) - 1

\* A writer that forgets setw(2) / setfill('0'): a byte below 16 gives one digit.
RECURSIVE hexEncodeUnpadded(_)
hexEncodeUnpadded(input) ==
    IF Len(input) = 0 THEN <<>>
    ELSE (IF input[1] < Len(HexDigits)
          THEN <<HexDigits[input[1] + 1]>>
          ELSE <<HexDigits[(input[1] \div Len(HexDigits)) + 1],
                 HexDigits[(input[1] % Len(HexDigits)) + 1]>>)
         \o hexEncodeUnpadded(Tail(input))

\* hexEncode: every byte as two hexadecimal digits, zero filled.
RECURSIVE hexEncode(_)
hexEncode(input) ==
    IF Len(input) = 0 THEN <<>>
    ELSE <<HexDigits[(input[1] \div Len(HexDigits)) + 1],
           HexDigits[(input[1] % Len(HexDigits)) + 1]>> \o hexEncode(Tail(input))

\* iss >> hex >> temp on a string of at most two characters: the value of the
\* leading hexadecimal digits (0 when there is none), as (uint8_t) temp.
ParseHex(chars) ==
    IF Len(chars) = 0 \/ ~IsHexDigit(chars[1]) THEN 0
    ELSE IF Len(chars) = 1 \/ ~IsHexDigit(chars[2]) THEN DigitValue(chars[1])
    ELSE DigitValue(chars[1]) * Len(HexDigits) + DigitValue(chars[2])

\* hexDecode: one byte for every two characters, the last one possibly alone.
RECURSIVE hexDecode(_)
hexDecode(input) ==
    IF Len(input) = 0 THEN <<>>
    ELSE IF Len(input) = 1 THEN <<ParseHex(input)>>
    ELSE <<ParseHex(SubSeq(input, 1, 2))>> \o hexDecode(SubSeq(input, 3, Len(input)))

\* The iteration order of the properties map (std::map: by key).
PropertyOrder == <<"DeviceIndex", "UseGraphs">>

SerializeInput(in) ==
    Node(in.type, [name |-> in.name],
         <<Node("Shape", NoProps,
                [j \in 1..Len(in.shape) |-> Node("Dim", [d |-> in.shape[j]], <<>>)]),
           Node("Values", NoProps,
                [j \in 1..Len(in.values) |-> Node("Value", [v |-> in.values[j]], <<>>)])>>)

\* The body of OnnxForceProxy::serialize for the descriptor `force`.
SerializeForce(force) ==
    [version |-> 1,
     model |-> hexEncode(force.model),
     forceGroup |-> force.forceGroup,
     usesPeriodic |-> force.periodic,
     children |->
       <<Node("ParticleIndices", NoProps,
              [i \in 1..Len(force.particleIndices) |->
                  Node("Particle", [index |-> force.particleIndices[i]], <<>>)]),
         Node("Inputs", NoProps,
              [i \in 1..getNumInputs(force) |-> SerializeInput(force.inputs[i])]),
         Node("GlobalParameters", NoProps,
              [i \in 1..getNumGlobalParameters(force) |->
                  Node("Parameter",
                       [name |-> force.globalParameters[i].name,
                        default |-> force.globalParameters[i].defaultValue], <<>>)]),
         Node("Properties", NoProps,
              [i \in 1..Len(PropertyOrder) |->
                  Node("Property", [name |-> PropertyOrder[i],
                                    value |-> force.properties[PropertyOrder[i]]], <<>>)])>>]

\* OnnxForceProxy::serialize
serialize ==
    /\ node' = SerializeForce(owner)
    /\ lastCall' = Call("serialize", NoError, 0)
    /\ UNCHANGED <<owner, implVars, hostVars, nameBlock, copy, calls>>

ChildNode(n, name) == n.children[CHOOSE k \in 1..Len(n.children) : n.children[k].name = name]

\* The input a child of "Inputs" is read back as: the values of a FloatInput
\* are doubles in the node and are cast to float.
DeserializeInput(input) ==
    [type |-> input.name,
     name |-> input.props.name,
     values |-> [j \in 1..Len(ChildNode(input, "Values").children) |->
                   IF input.name = "FloatInput"
                   THEN FloatCast(ChildNode(input, "Values").children[j].props.v)
                   ELSE ChildNode(input, "Values").children[j].props.v],
     shape |-> [j \in 1..Len(ChildNode(input, "Shape").children) |->
                   ChildNode(input, "Shape").children[j].props.d]]

DeserializeParameter(parameter) ==
    GlobalParameterInfo(parameter.props.name, parameter.props.default)

\* force->setProperty for each child of "Properties", from child k on.
RECURSIVE DeserializeProperties(_, _, _)
DeserializeProperties(force, children, k) ==
    IF k > Len(children) \/ force.thrown # NoError THEN force
    ELSE IF children[k].props.name \notin DOMAIN force.value.properties
         THEN [force EXCEPT !.thrown = UnknownProperty(children[k].props.name)]
         ELSE DeserializeProperties(
                  [force EXCEPT !.value.properties[children[k].props.name] =
                                    children[k].props.value],
                  children, k + 1)

\* One pass of the loop over the root's children.
DeserializeChild(force, child) ==
    IF force.thrown # NoError THEN force
    ELSE IF child.name = "ParticleIndices"
    THEN [force EXCEPT !.value.particleIndices =
              [i \in 1..Len(child.children) |-> child.children[i].props.index]]
    ELSE IF child.name = "Inputs"
    THEN [force EXCEPT !.value.inputs =
              @ \o [i \in 1..Len(child.children) |-> DeserializeInput(child.children[i])]]
    ELSE IF child.name = "GlobalParameters"
    THEN [force EXCEPT !.value.globalParameters =
              @ \o [i \in 1..Len(child.children) |->
                       DeserializeParameter(child.children[i])]]
    ELSE IF child.name = "Properties"
    THEN DeserializeProperties(force, child.children, 1)
    ELSE force

RECURSIVE DeserializeChildren(_, _, _)
DeserializeChildren(force, children, k) ==
    IF k > Len(children) THEN force
    ELSE DeserializeChildren(DeserializeChild(force, children[k]), children, k + 1)

\* A reader that takes a document of any version.
DeserializeForceAnyVersion(n) ==
    DeserializeChildren(
        [value |-> [OnnxForce(hexDecode(n.model)) EXCEPT
                       !.forceGroup = n.forceGroup,
                       !.periodic = n.usesPeriodic],
         thrown |-> NoError],
        n.children, 1)

\* The body of OnnxForceProxy::deserialize: [value, thrown].
DeserializeForce(n) ==
    IF n.version # 1
    THEN [value |-> OnnxForce(<<>>), thrown |-> OpenMMException("Unsupported version number")]
    ELSE DeserializeChildren(
             [value |-> [OnnxForce(hexDecode(n.model)) EXCEPT
                            !.forceGroup = n.forceGroup,
                            !.periodic = n.usesPeriodic],
              thrown |-> NoError],
             n.children, 1)

\* A reader that hands the provider of the written descriptor to the new one.
AssignCopyWithProvider(r) ==
    /\ copy' = IF r.thrown = NoError
               THEN [r.value EXCEPT !.provider = owner.provider] ELSE copy
    /\ lastCall' = Call("deserialize", r.thrown, 0)

AssignCopy(r) ==
    /\ copy' = IF r.thrown = NoError THEN r.value ELSE copy
    /\ lastCall' = Call("deserialize", r.thrown, 0)

\* OnnxForceProxy::deserialize
deserialize ==
    /\ AssignCopy(DeserializeForce(node))
    /\ UNCHANGED <<owner, implVars, hostVars, nameBlock, node, calls>>

\* A document that did not come from serialize is handed to the proxy: it
\* may name another version and may hold a property no descriptor has.
receive(version, foreign) ==
    /\ node' = [SerializeForce(owner) EXCEPT
                   !.version = version,
                   !.children = IF foreign
                                THEN Append(@, Node("Properties", NoProps,
                                         <<Node("Property",
                                                [name |-> "Precision", value |-> "high"],
                                                <<>>)>>))
                                ELSE @]
    /\ lastCall' = Call("receive", NoError, 0)
    /\ UNCHANGED <<owner, implVars, hostVars, nameBlock, copy, calls>>

\* ==================================================================== host
\* Context::setPositions
setPositions(pos) ==
    /\ positions' = pos
    /\ lastCall' = Call("setPositions", NoError, 0)
    /\ UNCHANGED <<owner, implVars, forces, parameters, box, available, nameBlock,
                   codecVars, calls>>

\* Context::setParameter: only a parameter the Context knows can be set.
setParameter(name, value) ==
    /\ implState = "Initialized"
    /\ IF name \in DOMAIN parameters
       THEN /\ parameters' = [parameters EXCEPT ![name] = value]
            /\ lastCall' = Call("setParameter", NoError, 0)
       ELSE /\ parameters' = parameters
            /\ lastCall' = Call("setParameter", OpenMMException("invalid parameter name"), 0)
    /\ UNCHANGED <<owner, implVars, positions, forces, box, available, nameBlock,
                   codecVars, calls>>

\* Context::setPeriodicBoxVectors
setPeriodicBoxVectors(b) ==
    /\ box' = b
    /\ lastCall' = Call("setPeriodicBoxVectors", NoError, 0)
    /\ UNCHANGED <<owner, implVars, positions, forces, parameters, available,
                   nameBlock, codecVars, calls>>

\* ========================================================= specifications
\* Host states the caller may present: every particle at its own place, with
\* coordinates a float cannot hold among them.
HostPositions ==
    {[p \in 1..NumParticles |-> <<10 * p + 1, 10 * p + 2, 10 * p + 3>>],
     [p \in 1..NumParticles |-> <<10 * p + 5, 10 * p + 6, 10 * p + 7>>]}
\* The caller's force vector before the first call.
HostForces ==
    {[p \in 1..NumParticles |-> <<0, 0, 0>>],
     [p \in 1..NumParticles |-> <<100 + p, 200 + p, 300 + p>>]}
DefaultBox == <<<<2, 0, 0>>, <<0, 3, 0>>, <<0, 0, 4>>>>
HostBoxes == {DefaultBox, <<<<5, 0, 0>>, <<1, 6, 0>>, <<1, 1, 7>>>>}
ModelBytes == <<8, 1, 255>>

NoNode == [version |-> 0, model |-> <<>>, forceGroup |-> 0, usesPeriodic |-> FALSE,
           children |-> <<>>]

\* The state after constructing a descriptor and, from it, an engine
\* (OnnxForce::createImpl, OnnxForceImpl::OnnxForceImpl).
InitWith(descriptors, installed, hostPositions, hostForces) ==
    /\ owner \in descriptors
    /\ implState = "Uninitialized"
    /\ session = NoSession
    /\ particleIndices = <<>>
    /\ positionVec = <<>>
    /\ paramVec = <<>>
    /\ boxVectors = [k \in 1..9 |-> Uninit]
    /\ inputNames = <<>>
    /\ inputTensors = <<>>
    /\ integerInputs = <<>>
    /\ floatInputs = <<>>
    /\ outputTensors = NoOutput
    /\ positions \in hostPositions
    /\ forces \in hostForces
    /\ parameters = <<>>
    /\ box = DefaultBox
    /\ available \in installed
    /\ probed = <<>>
    /\ runInputs = <<>>
    /\ runOutputs = <<>>
    /\ calls = [t \in Threads |-> NoCall]
    /\ nameBlock = [live |-> TRUE, bytes |-> <<>>]
    /\ memoryCorrupted = FALSE
    /\ node = NoNode
    /\ copy = OnnxForce(<<>>)
    /\ lastCall = Call("OnnxForce", NoError, 0)

\* --- Spec: a particle subset is chosen, the Context is created, and the
\* --- host then moves the particles and asks for forces.
Init == InitWith({OnnxForce(ModelBytes)}, {{}, {"CUDA"}}, HostPositions, HostForces)

ChooseSubset ==
    /\ implState = "Uninitialized"
    /\ \E indices \in SeqsUpTo(IndexVals, MaxSubset) : setParticleIndices(indices)
CreateContext == \E fails \in OrtFailures, traps \in BOOLEAN : initialize(fails, traps)
MoveParticles == \E pos \in HostPositions : setPositions(pos)
Evaluate ==
    \E runs \in BOOLEAN, scale \in ModelScales, faults \in BOOLEAN, stale \in BOOLEAN :
        computeForce(runs, scale, faults, stale)

Next == ChooseSubset \/ CreateContext \/ MoveParticles \/ Evaluate

Spec == Init /\ [][Next]_vars

\* --- SpecCodec: a descriptor is built with the public mutators, written to
\* --- a node and read back.
ModelBytesLow == <<0, 16>>
CodecSubsets == {<<>>, <<2, 0>>, <<1, 1>>}
CodecParameters == {GlobalParameterInfo("a", 1), GlobalParameterInfo("b", 4)}
CodecInputs == {IntegerInput("i", <<7, -2>>, <<2>>), FloatInput("f", <<6>>, <<1>>)}

InitCodec ==
    InitWith({OnnxForce(ModelBytes), OnnxForce(ModelBytesLow)}, {{}},
             HostPositions, HostForces)

Build ==
    /\ node = NoNode
    /\ \/ setForceGroup(3)
       \/ \E periodic \in BOOLEAN : setUsesPeriodicBoundaryConditions(periodic)
       \/ \E indices \in CodecSubsets : setParticleIndices(indices)
       \/ /\ getNumGlobalParameters(owner) < MaxParams
          /\ \E p \in CodecParameters : addGlobalParameter(p.name, p.defaultValue)
       \/ /\ getNumInputs(owner) < MaxInputs
          /\ \E in \in CodecInputs : addInput(in)
       \/ \E name \in {"UseGraphs", "Precision"} : setProperty(name, "true")
WriteNode == node = NoNode /\ serialize
ReadNode == node # NoNode /\ deserialize

NextCodec == Build \/ WriteNode \/ ReadNode

SpecCodec == InitCodec /\ [][NextCodec]_vars

\* --- SpecProperties: descriptors are constructed with and without property
\* --- maps, properties are set, and documents are written, received and read.
PropertyMaps ==
    {NoProps,
     [n \in {"UseGraphs"} |-> "true"],
     [n \in {"DeviceIndex"} |-> "1"],
     [n \in {"Precision"} |-> "high"],
     [n \in {"DeviceIndex", "Precision"} |-> "1"]}
PropertyValues == {"true", "1"}

InitProperties ==
    InitWith({OnnxForce(ModelBytes)}, {{}},
             {CHOOSE pos \in HostPositions : TRUE}, {CHOOSE f \in HostForces : TRUE})
Construct == construct(ModelBytes)
ConstructWith == \E properties \in PropertyMaps : constructWithProperties(ModelBytes, properties)
SetProperty ==
    \E name \in PropertyNames \cup {"Precision"}, value \in PropertyValues :
        setProperty(name, value)
Receive == \E version \in {1, 2}, foreign \in BOOLEAN : receive(version, foreign)

NextProperties == Construct \/ ConstructWith \/ SetProperty \/ serialize \/ Receive \/ ReadNode

SpecProperties == InitProperties /\ [][NextProperties]_vars

\* --- SpecEntries: parameters and inputs are added to an empty descriptor and
\* --- read and written by index, in range and out of range.
EntryNames == {"a", "b"}
EntryDefaults == {1, 4}
EntryInputs == {FloatInput("f", <<6>>, <<1>>)}
ParameterIndices == -1..MaxParams
InputIndices == -1..MaxInputs

InitEntries ==
    InitWith({OnnxForce(ModelBytes)}, {{}},
             {CHOOSE pos \in HostPositions : TRUE}, {CHOOSE f \in HostForces : TRUE})
AddParameter ==
    /\ getNumGlobalParameters(owner) < MaxParams
    /\ \E name \in EntryNames, defaultValue \in EntryDefaults :
          addGlobalParameter(name, defaultValue)
GetName == \E index \in ParameterIndices : getGlobalParameterName(index)
SetName ==
    \E index \in ParameterIndices, name \in EntryNames : setGlobalParameterName(index, name)
GetDefault == \E index \in ParameterIndices : getGlobalParameterDefaultValue(index)
SetDefault ==
    \E index \in ParameterIndices, defaultValue \in EntryDefaults :
        setGlobalParameterDefaultValue(index, defaultValue)
AddInput ==
    /\ getNumInputs(owner) < MaxInputs
    /\ \E in \in EntryInputs : addInput(in)
GetInput == \E index \in InputIndices : getInput(index)
SetValues == \E index \in InputIndices : setValues(index, <<8>>)

NextEntries ==
    \/ AddParameter
    \/ GetName
    \/ SetName
    \/ GetDefault
    \/ SetDefault
    \/ AddInput
    \/ GetInput
    \/ SetValues

SpecEntries == InitEntries /\ [][NextEntries]_vars

\* --- SpecLive: a Context exists; the caller goes on changing the descriptor,
\* --- the host changes parameters and box, forces are asked for, and the
\* --- Context may be reinitialized.
LiveForces ==
    {[OnnxForce(ModelBytes) EXCEPT
         !.periodic = periodic,
         !.globalParameters = <<GlobalParameterInfo("a", 1)>>,
         !.inputs = <<FloatInput("f", <<6>>, <<1>>)>>] : periodic \in BOOLEAN}
InitLive ==
    InitWith(LiveForces, {{}}, {CHOOSE pos \in HostPositions : TRUE},
             {CHOOSE f \in HostForces : TRUE})

\* The descriptor is changed while an engine made from it is in use, and is
\* still as it was when the engine was made (but for the periodic flag).
InUse == implState = "Initialized" /\ owner \in LiveForces

LiveSetPeriodic == InUse /\ \E periodic \in BOOLEAN : setUsesPeriodicBoundaryConditions(periodic)
LiveAddParameter ==
    InUse /\ getNumGlobalParameters(owner) < MaxParams /\ addGlobalParameter("b", 4)
LiveSetName == InUse /\ \E index \in {0, 1} : setGlobalParameterName(index, "b")
LiveSetDefault == InUse /\ setGlobalParameterDefaultValue(0, 4)
LiveSetIndices == InUse /\ setParticleIndices(<<1>>)
LiveSetProvider == InUse /\ setExecutionProvider("CUDA")
LiveSetProperty == InUse /\ setProperty("UseGraphs", "true")
LiveAddInput ==
    InUse /\ getNumInputs(owner) < MaxInputs /\ addInput(IntegerInput("i", <<7, -2>>, <<2>>))
LiveSetValues == InUse /\ setValues(0, <<8>>)
LiveSetShape == InUse /\ setShape(0, <<>>)
LiveParameter == setParameter("a", 3)
LiveBox == \E b \in HostBoxes : setPeriodicBoxVectors(b)
LiveEvaluate ==
    \E runs \in BOOLEAN, faults \in BOOLEAN, stale \in BOOLEAN :
        computeForce(runs, 1, faults, stale)
Reinitialize == createImpl

NextLive ==
    \/ CreateContext
    \/ LiveSetPeriodic
    \/ LiveAddParameter
    \/ LiveSetName
    \/ LiveSetDefault
    \/ LiveSetIndices
    \/ LiveSetProvider
    \/ LiveSetProperty
    \/ LiveAddInput
    \/ LiveSetValues
    \/ LiveSetShape
    \/ LiveParameter
    \/ LiveBox
    \/ LiveEvaluate
    \/ Reinitialize

SpecLive == InitLive /\ [][NextLive]_vars

\* --- SpecDefaults: parameters are declared, a Context is created from the
\* --- descriptor, and the host evaluates and sets parameters.
InitDefaults ==
    InitWith({OnnxForce(ModelBytes)}, {{}},
             {CHOOSE pos \in HostPositions : TRUE}, {CHOOSE f \in HostForces : TRUE})
DeclareParameter == implState = "Uninitialized" /\ AddParameter
SetParameter == \E name \in EntryNames : setParameter(name, 6)

NextDefaults == DeclareParameter \/ CreateContext \/ SetParameter \/ LiveEvaluate

SpecDefaults == InitDefaults /\ [][NextDefaults]_vars

\* --- SpecBinding: a descriptor is given a subset, the periodic flag,
\* --- parameters and extra inputs; a Context is created from it and evaluated.
InitBinding ==
    InitWith({OnnxForce(ModelBytes)}, {{}},
             {CHOOSE pos \in HostPositions : TRUE}, {CHOOSE f \in HostForces : TRUE})
Describe ==
    /\ implState = "Uninitialized"
    /\ \/ \E periodic \in BOOLEAN : setUsesPeriodicBoundaryConditions(periodic)
       \/ \E indices \in CodecSubsets : setParticleIndices(indices)
       \/ /\ getNumGlobalParameters(owner) < MaxParams
          /\ \E p \in CodecParameters : addGlobalParameter(p.name, p.defaultValue)
       \/ /\ getNumInputs(owner) < MaxInputs
          /\ \E in \in CodecInputs : addInput(in)

NextBinding == Describe \/ CreateContext \/ LiveEvaluate

SpecBinding == InitBinding /\ [][NextBinding]_vars

\* --- SpecBackend: a provider and the UseGraphs property are chosen on a
\* --- machine with some providers installed, then the Context is created and
\* --- forces are asked for.
InitBackend ==
    InitWith({OnnxForce(ModelBytes)}, SUBSET GpuProviders,
             {CHOOSE pos \in HostPositions : TRUE}, {CHOOSE f \in HostForces : TRUE})
UseGraphsValues == {"true", "false", "True", "1"}

ChooseProvider ==
    /\ implState = "Uninitialized"
    /\ \E provider \in Providers : setExecutionProvider(provider)
ChooseUseGraphs ==
    /\ implState = "Uninitialized"
    /\ \E value \in UseGraphsValues : setProperty("UseGraphs", value)

NextBackend == ChooseProvider \/ ChooseUseGraphs \/ CreateContext \/ LiveEvaluate

SpecBackend == InitBackend /\ [][NextBackend]_vars

\* --- SpecChain: provider, DeviceIndex and UseGraphs are chosen on a host
\* --- with any set of providers installed; Contexts are created again and
\* --- again from the descriptor.
InitChain ==
    InitWith({OnnxForce(ModelBytes)}, SUBSET GpuProviders,
             {CHOOSE pos \in HostPositions : TRUE}, {CHOOSE f \in HostForces : TRUE})
DeviceIndexValues == {"0", "1"}
ChooseDeviceIndex ==
    /\ implState = "Uninitialized"
    /\ \E value \in DeviceIndexValues : setProperty("DeviceIndex", value)

NextChain ==
    ChooseProvider \/ ChooseUseGraphs \/ ChooseDeviceIndex \/ CreateContext \/ Reinitialize

SpecChain == InitChain /\ [][NextChain]_vars

\* --- SpecGather: a subset is chosen on a periodic or non-periodic
\* --- descriptor, the Context is created, and the host moves the particles,
\* --- changes the box and asks for forces.
InitGather ==
    InitWith({[OnnxForce(ModelBytes) EXCEPT !.periodic = periodic] : periodic \in BOOLEAN},
             {{}}, HostPositions, {CHOOSE f \in HostForces : TRUE})

NextGather == ChooseSubset \/ CreateContext \/ MoveParticles \/ LiveBox \/ Evaluate

SpecGather == InitGather /\ [][NextGather]_vars

\* --- SpecOrder: a provider, a UseGraphs value and extra inputs, well shaped
\* --- and not, are chosen on a host with any set of providers installed.
OrderInputs == {FloatInput("f", <<6>>, <<2>>), IntegerInput("i", <<7, -2>>, <<2>>)}
InitOrder ==
    InitWith({OnnxForce(ModelBytes)}, SUBSET GpuProviders,
             {CHOOSE pos \in HostPositions : TRUE}, {CHOOSE f \in HostForces : TRUE})
OrderAddInput ==
    /\ implState = "Uninitialized"
    /\ getNumInputs(owner) < MaxInputs
    /\ \E in \in OrderInputs : addInput(in)

NextOrder == ChooseProvider \/ ChooseUseGraphs \/ OrderAddInput \/ CreateContext

SpecOrder == InitOrder /\ [][NextOrder]_vars

\* --- SpecThreads: two threads call computeForce on one engine, each with its
\* --- own positions and forces; the steps of their calls interleave.
InitThreads ==
    InitWith(LiveForces, {{}}, {CHOOSE pos \in HostPositions : TRUE},
             {CHOOSE f \in HostForces : TRUE})
Begin ==
    \E t \in Threads, pos \in HostPositions :
        CallBegin(t, pos, [p \in 1..NumParticles |-> <<0, 0, 0>>])
GatherStep == \E t \in Threads : CallGather(t)
FillStep == \E t \in Threads : CallFill(t)
RunStep == \E t \in Threads : CallRun(t)
ScatterStep == \E t \in Threads : CallScatter(t)

NextThreads ==
    CreateContext \/ Begin \/ GatherStep \/ FillStep \/ RunStep \/ ScatterStep

SpecThreads == InitThreads /\ [][NextThreads]_vars

\* --- SpecPersist: a descriptor is given a provider, a force group and a
\* --- subset in any order, and is written to a node and read back at any time.
PersistBuild ==
    \/ \E provider \in Providers : setExecutionProvider(provider)
    \/ setForceGroup(3)
    \/ \E indices \in CodecSubsets : setParticleIndices(indices)
PersistRead == node # NoNode /\ deserialize

NextPersist == PersistBuild \/ serialize \/ PersistRead

SpecPersist == InitCodec /\ [][NextPersist]_vars

\* --- SpecScatter: as Spec, with a model whose output rows differ from slot
\* --- to slot.
EvaluateSlotModel ==
    \E runs \in BOOLEAN, scale \in ModelScales, faults \in BOOLEAN, stale \in BOOLEAN :
        computeForceSlotModel(runs, scale, faults, stale)

NextScatter == ChooseSubset \/ CreateContext \/ MoveParticles \/ EvaluateSlotModel

SpecScatter == Init /\ [][NextScatter]_vars

\* --- SpecIndices: any short list over -1..NumParticles is the subset, the
\* --- Context is created, and the caller then adds parameters, of a name the
\* --- Context knows and of one it does not, between calls for forces.
InitIndices ==
    InitWith(LiveForces, {{}}, {CHOOSE pos \in HostPositions : TRUE},
             {CHOOSE f \in HostForces : TRUE})
IndicesAddParameter ==
    /\ implState = "Initialized"
    /\ getNumGlobalParameters(owner) < MaxParams
    /\ \E name \in {"a", "b"} : addGlobalParameter(name, 4)

NextIndices == ChooseSubset \/ CreateContext \/ IndicesAddParameter \/ LiveEvaluate

SpecIndices == InitIndices /\ [][NextIndices]_vars

\* --- SpecShape: extra inputs of many shapes and lengths are added, then the
\* --- Context is created.
FloatValues(n) == [i \in 1..n |-> 2 * i]
ShapeChoices == {<<>>, <<10>>, <<0, 5>>, <<3, 3>>, <<-3, -3>>, <<65536, 65536>>}
LengthChoices == {0, 1, 9, 10}
ShapeInputs ==
    {FloatInput("f", FloatValues(n), shape) : n \in LengthChoices, shape \in ShapeChoices}
    \cup {IntegerInput("i", <<7, -2>>, <<2>>), IntegerInput("j", <<7, -2>>, <<1>>)}

InitShape ==
    InitWith({OnnxForce(ModelBytes)}, {{}},
             {CHOOSE pos \in HostPositions : TRUE}, {CHOOSE f \in HostForces : TRUE})
ShapeAddInput ==
    /\ implState = "Uninitialized"
    /\ getNumInputs(owner) < MaxInputs
    /\ \E in \in ShapeInputs : addInput(in)

NextShape == ShapeAddInput \/ CreateContext \/ LiveEvaluate

SpecShape == InitShape /\ [][NextShape]_vars

\* ============================================================= properties
Evaluated == lastCall.op = "computeForce" /\ lastCall.thrown = NoError
InSubset(p) == \E i \in 1..Len(particleIndices) : particleIndices[i] = p

\* C1: one computeForce call assigns a force only to host particle indices
\* that occur in the engine's particle list; the force entry of every other
\* host particle is after the call exactly what it was before it.
C1_SubsetFrame ==
    [][lastCall'.op = "computeForce" =>
          \A p \in Particles : ~InSubset(p) => forces'[p + 1] = forces[p + 1]]_vars

\* A proper subset has been evaluated: a particle outside it still carries the
\* caller's earlier force and a particle inside it carries the model's.
C1_Witness ==
    /\ Evaluated
    /\ \E p \in Particles : ~InSubset(p) /\ forces[p + 1] = <<101 + p, 201 + p, 301 + p>>
    /\ \E i \in 1..Len(particleIndices) :
          /\ particleIndices[i] \in Particles
          /\ forces[particleIndices[i] + 1] = ForceRow(outputTensors.forces, i - 1)

\* C2: the engine's particle list is the descriptor's list (same order, same
\* elements) when that is non-empty and 0, 1, ..., numParticles-1 when it is
\* empty; with an empty list every host particle gets a force on evaluate.
C2_EffectiveSubset ==
    implState = "Initialized" =>
        /\ Len(owner.particleIndices) > 0 => particleIndices = owner.particleIndices
        /\ Len(owner.particleIndices) = 0 =>
              /\ Len(particleIndices) = NumParticles
              /\ \A p \in Particles : particleIndices[p + 1] = p
              /\ Evaluated =>
                    \A p \in Particles :
                        forces[p + 1] = ForceRow(outputTensors.forces, p)

C2_Witness ==
    /\ implState = "Initialized"
    /\ Len(owner.particleIndices) = 0
    /\ Evaluated
    /\ \A p \in Particles : forces[p + 1][1] < 0

Deserialized == lastCall.op = "deserialize" /\ lastCall.thrown = NoError

\* C3: the descriptor read back from a descriptor's node equals it in model
\* bytes, particle indices (order and duplicates), global parameters (order,
\* names, defaults), extra inputs (order, variant, name, shape, values),
\* properties, periodic flag and force group.
C3_RoundTrip ==
    Deserialized =>
        /\ copy.model = owner.model
        /\ copy.particleIndices = owner.particleIndices
        /\ copy.globalParameters = owner.globalParameters
        /\ copy.inputs = owner.inputs
        /\ copy.properties = owner.properties
        /\ copy.periodic = owner.periodic
        /\ copy.forceGroup = owner.forceGroup

\* A descriptor with a byte below 16 in its model, a repeated particle index,
\* two parameters (one default no float holds), both kinds of input and a
\* changed property has been read back.
C3_Witness ==
    /\ Deserialized
    /\ copy.model = ModelBytes
    /\ copy.particleIndices = <<1, 1>>
    /\ Len(copy.globalParameters) = 2
    /\ copy.globalParameters[1].defaultValue = 1
    /\ Len(copy.inputs) = 2
    /\ copy.inputs[1].type = "FloatInput"
    /\ copy.inputs[2].type = "IntegerInput"
    /\ copy.properties["UseGraphs"] = "true"
    /\ copy.periodic
    /\ copy.forceGroup = 3

\* What one computeForce call now would write into the engine's buffers and
\* hand to session.Run, were the descriptor o and the parameter names' storage
\* in state block.
Evaluation(o, block, stale) ==
    [positionVec |-> Gather(particleIndices, positions),
     boxVectors |-> IF o.periodic THEN FlattenBox(box) ELSE boxVectors,
     params |-> WriteParams([paramVec |-> paramVec, thrown |-> NoError, oob |-> FALSE],
                            o, parameters, 0),
     feed |-> Feed(inputNames, inputTensors, o,
                   Gather(particleIndices, positions),
                   IF o.periodic THEN FlattenBox(box) ELSE boxVectors,
                   WriteParams([paramVec |-> paramVec, thrown |-> NoError, oob |-> FALSE],
                               o, parameters, 0).paramVec,
                   integerInputs, floatInputs, block, stale)]

\* C4: a change made to the descriptor after initialize changes nothing of
\* what an evaluate of the engine reads, writes and passes to inference: the
\* call does after the change what it would have done without it.
C4_Snapshot ==
    [][(implState = "Initialized" /\ implState' = "Initialized" /\ owner' # owner) =>
          \A stale \in BOOLEAN :
              Evaluation(owner', nameBlock', stale) = Evaluation(owner, nameBlock, stale)]_vars

\* An engine made for a periodic system has, after the descriptor was told to
\* be non-periodic, passed a box to inference that is not the host's box.
C4_Witness ==
    /\ Evaluated
    /\ ~owner.periodic
    /\ \E k \in 1..Len(runInputs) :
          runInputs[k].name = "box" /\ runInputs[k].data # FlattenBox(box)

Floats(o) == SelectSeq(o.inputs, LAMBDA in : in.type = "FloatInput")
Integers(o) == SelectSeq(o.inputs, LAMBDA in : in.type = "IntegerInput")
\* The entries of a feed that follow positions, box and global parameters.
ExtraFed(feed) ==
    SubSeq(feed, Len(feed) - Len(integerInputs) - Len(floatInputs) + 1, Len(feed))
\* The entries the engine's copies of the extra inputs stand for.
ExtraCopies ==
    [i \in 1..Len(integerInputs) |->
        [name |-> integerInputs[i].name, elem |-> "int",
         shape |-> integerInputs[i].shape, data |-> integerInputs[i].values]]
    \o [i \in 1..Len(floatInputs) |->
        [name |-> floatInputs[i].name, elem |-> "float",
         shape |-> floatInputs[i].shape, data |-> floatInputs[i].values]]

\* C5: initialize copies the descriptor's extra inputs as they are then; the
\* copies do not change while the engine lives, whatever is done to the
\* descriptor's inputs, and every evaluate passes the copies to inference.
C5_InputsFrozen ==
    [][/\ (lastCall'.op = "initialize" /\ implState' = "Initialized") =>
             /\ integerInputs' = Integers(owner)
             /\ floatInputs' = Floats(owner)
       /\ (implState = "Initialized" /\ implState' # "Uninitialized") =>
             UNCHANGED <<integerInputs, floatInputs, inputTensors>>
       /\ (lastCall'.op = "computeForce" /\ lastCall'.thrown.type # "OpenMMException"
              /\ implState' = "Initialized") =>
             ExtraFed(runInputs') = ExtraCopies]_vars

\* The descriptor's input was given other values after initialize and an
\* evaluate has since passed the old ones.
C5_Witness ==
    /\ Evaluated
    /\ Len(floatInputs) = 1
    /\ Floats(owner)[1].values = <<8>>
    /\ \E k \in 1..Len(runInputs) : runInputs[k].name = "f" /\ runInputs[k].data = <<6>>

\* C6: every evaluate that reaches inference has written, for each global
\* parameter i in order, the host's current value of the parameter of that
\* name, as a float, into the i-th scalar buffer, and passes it to inference;
\* no buffer's size and no tensor's shape changes.
C6_LiveParameters ==
    [][(lastCall'.op = "computeForce" /\ lastCall'.thrown.type # "OpenMMException"
           /\ implState' = "Initialized") =>
          /\ \A i \in 1..Len(paramVec) :
                /\ paramVec'[i] = FloatCast(parameters[owner.globalParameters[i].name])
                /\ \E k \in 1..Len(runInputs') :
                      /\ inputTensors[k].buf = "paramVec"
                      /\ inputTensors[k].index = i - 1
                      /\ runInputs'[k].data = <<paramVec'[i]>>
          /\ Len(paramVec') = Len(paramVec)
          /\ Len(positionVec') = Len(positionVec)
          /\ inputTensors' = inputTensors]_vars

\* The host changed a parameter after an evaluate and the next evaluate
\* passed the new value, as a float, to inference.
C6_Witness ==
    /\ Evaluated
    /\ "a" \in DOMAIN parameters
    /\ parameters["a"] = 3
    /\ paramVec = <<4>>
    /\ \E k \in 1..Len(runInputs) : runInputs[k].name = "a" /\ runInputs[k].data = <<4>>

Unavailable == OpenMMException("execution provider is not available")
Initializing == lastCall.op = "initialize"

\* C7: when the descriptor asks for TensorRT, CUDA or ROCm and the probe
\* for that provider fails, initialize ends with the provider-unavailable
\* error and the engine is not Initialized; computeForce never ends with that
\* error.
C7_ExplicitUnavailable ==
    /\ (Initializing /\ owner.provider \in GpuProviders
           /\ owner.provider \in Range(probed) /\ owner.provider \notin available) =>
          (lastCall.thrown = Unavailable /\ implState = "Failed" /\ ~session.created)
    /\ lastCall.op = "computeForce" => lastCall.thrown # Unavailable

C7_Witness ==
    /\ Initializing
    /\ owner.provider = "CUDA"
    /\ available = {"TensorRT", "ROCm"}
    /\ probed = <<"CUDA">>
    /\ lastCall.thrown = Unavailable

\* C8: for provider Default or CPU initialize never ends with the
\* provider-unavailable error, whatever is installed; a Default request with
\* nothing installed has an empty provider chain, and initialize succeeds
\* unless the runtime itself fails.
C8_DefaultNeverUnavailable ==
    (Initializing /\ owner.provider \in {"Default", "CPU"}) =>
        /\ lastCall.thrown # Unavailable
        /\ (owner.provider = "Default" /\ available = {}
               /\ owner.properties["UseGraphs"] \in {"true", "false"}
               /\ lastCall.thrown.type # "Ort::Exception") =>
              /\ implState = "Initialized"
              /\ lastCall.thrown = NoError
              /\ session = [created |-> TRUE, providers |-> <<>>]
        /\ owner.provider = "CPU" => probed = <<>>

C8_Witness ==
    /\ Initializing
    /\ owner.provider = "Default"
    /\ available = {}
    /\ probed = ProviderOrder
    /\ implState = "Initialized"
    /\ session.providers = <<>>

\* C9: when UseGraphs is neither "true" nor "false", initialize ends with the
\* illegal-value error with no provider probed and no session created, for
\* every provider.
C9_UseGraphsFirst ==
    (Initializing /\ owner.properties["UseGraphs"] \notin {"true", "false"}) =>
        /\ lastCall.thrown = OpenMMException("Illegal value for UseGraphs")
        /\ implState = "Failed"
        /\ probed = <<>>
        /\ ~session.created

C9_Witness ==
    /\ Initializing
    /\ owner.properties["UseGraphs"] = "True"
    /\ owner.provider = "CUDA"
    /\ available = {}
    /\ lastCall.thrown = OpenMMException("Illegal value for UseGraphs")

\* The product of the dimensions as a number: whether it is n.  (A product
\* with no zero factor that leaves the range of int is no length.)
ExactProductIs(shape, n) ==
    IF \E i \in 1..Len(shape) : shape[i] = 0 THEN n = 0
    ELSE /\ ~ShapeProduct(shape, [value |-> 1, overflow |-> FALSE]).overflow
         /\ ShapeProduct(shape, [value |-> 1, overflow |-> FALSE]).value = n
Mismatched(o) ==
    {k \in 1..Len(o.inputs) : ~ExactProductIs(o.inputs[k].shape, Len(o.inputs[k].values))}
FirstMismatched(o) == CHOOSE k \in Mismatched(o) : \A j \in Mismatched(o) : k <= j

\* C10: an initialize that gets as far as the extra inputs ends with the
\* incorrect-length error exactly when some input's number of values is not
\* the product of its shape, and the error then names that product as
\* expected and the number of values as found.
C10_ShapeMismatch ==
    (Initializing /\ session.created) =>
        /\ (lastCall.thrown.msg = "Incorrect length for input") <=> (Mismatched(owner) # {})
        /\ Mismatched(owner) # {} =>
              /\ lastCall.thrown.found = Len(owner.inputs[FirstMismatched(owner)].values)
              /\ ExactProductIs(owner.inputs[FirstMismatched(owner)].shape,
                                lastCall.thrown.expected)

\* An input of 65536 x 65536 elements with no values has been accepted.
C10_Witness ==
    /\ Initializing
    /\ implState = "Initialized"
    /\ \E k \in 1..Len(owner.inputs) :
          owner.inputs[k].shape = <<65536, 65536>> /\ Len(owner.inputs[k].values) = 0

Unsupported == OpenMMException("Unsupported version number")

\* C11: serialize writes version 1; deserialize of a document of any other
\* version ends with the unsupported-version error, whatever else the
\* document holds, and leaves no descriptor behind.
C11_Version ==
    [][/\ lastCall'.op = "serialize" => node'.version = 1
       /\ (lastCall'.op = "deserialize" /\ node.version # 1) =>
             (lastCall'.thrown = Unsupported /\ copy' = copy)]_vars

\* A document of version 2 holding a property no descriptor has was refused
\* for its version.
C11_Witness ==
    /\ lastCall.op = "deserialize"
    /\ node.version = 2
    /\ Len(node.children) = 5
    /\ lastCall.thrown = Unsupported
    /\ copy = OnnxForce(<<>>)

C13_PropertyKeys ==
    /\ DOMAIN owner.properties = PropertyNames
    /\ DOMAIN copy.properties = PropertyNames
    /\ lastCall.op = "OnnxForce" => owner.properties = [DeviceIndex |-> "0", UseGraphs |-> "false"]
    /\ (lastCall.op = "OnnxForce(properties)" /\ lastCall.thrown # NoError) =>
          (lastCall.thrown.msg = "Unknown property" /\ lastCall.thrown.input \notin PropertyNames)
    /\ \A properties \in PropertyMaps :
          (DOMAIN properties \subseteq PropertyNames)
              <=> (initProperties(properties).thrown = NoError)

\* A construction with the key Precision has failed and the descriptor that
\* was there is as it was.
C13_Witness ==
    /\ lastCall.op = "OnnxForce(properties)"
    /\ lastCall.thrown = UnknownProperty("Precision")
    /\ owner.properties["UseGraphs"] = "true"
    /\ Deserialized = FALSE

IndexError == OpenMMException("Index out of range")
OutOfBounds(index, count) == index < 0 \/ index >= count

\* C14: a call of getGlobalParameterName, setGlobalParameterName,
\* getGlobalParameterDefaultValue, setGlobalParameterDefaultValue or getInput
\* with an index below 0 or not below the count ends with the index error
\* and leaves the descriptor as it was.
C14_IndexError ==
    [][/\ \A index \in ParameterIndices :
             OutOfBounds(index, Len(owner.globalParameters)) =>
                /\ getGlobalParameterName(index) =>
                      (lastCall'.thrown = IndexError /\ owner' = owner)
                /\ getGlobalParameterDefaultValue(index) =>
                      (lastCall'.thrown = IndexError /\ owner' = owner)
                /\ \A name \in EntryNames :
                      (lastCall'.op = "setGlobalParameterName"
                          /\ setGlobalParameterName(index, name)) =>
                         (lastCall'.thrown = IndexError /\ owner' = owner)
                /\ \A defaultValue \in EntryDefaults :
                      (lastCall'.op = "setGlobalParameterDefaultValue"
                          /\ setGlobalParameterDefaultValue(index, defaultValue)) =>
                         (lastCall'.thrown = IndexError /\ owner' = owner)
       /\ \A index \in InputIndices :
             OutOfBounds(index, Len(owner.inputs)) =>
                (getInput(index) => (lastCall'.thrown = IndexError /\ owner' = owner))
       /\ lastCall'.op \in {"getGlobalParameterName", "setGlobalParameterName",
                            "getGlobalParameterDefaultValue",
                            "setGlobalParameterDefaultValue", "getInput"} =>
             IF lastCall'.thrown = NoError
             THEN Len(owner.globalParameters) + Len(owner.inputs) > 0
             ELSE lastCall'.thrown = IndexError /\ owner' = owner]_vars

\* getInput was refused on a descriptor that holds a parameter and an input.
C14_Witness ==
    /\ lastCall.op = "getInput"
    /\ lastCall.thrown = IndexError
    /\ Len(owner.inputs) = 1
    /\ Len(owner.globalParameters) = 1

Kept(old, new) == Len(new) >= Len(old) /\ \A i \in 1..Len(old) : new[i] = old[i]
KeptBut(old, new, index) ==
    Len(new) = Len(old) /\ \A i \in 1..Len(old) : i # index + 1 => new[i] = old[i]

\* C15: on a descriptor that starts with no entries, each addGlobalParameter
\* and each addInput returns the count before the call and puts its entry
\* behind the entries already there, so the k-th call returns k-1 and the
\* count is the number of calls; a setter for index i changes entry i alone;
\* no step removes an entry or moves one.
C15_Entries ==
    [][/\ \A name \in EntryNames, defaultValue \in EntryDefaults :
             (lastCall'.op = "addGlobalParameter"
                 /\ addGlobalParameter(name, defaultValue)) =>
                /\ lastCall'.ret = Len(owner.globalParameters)
                /\ owner'.globalParameters =
                      Append(owner.globalParameters, GlobalParameterInfo(name, defaultValue))
                /\ owner'.inputs = owner.inputs
       /\ \A in \in EntryInputs :
             (lastCall'.op = "addInput" /\ addInput(in)) =>
                /\ lastCall'.ret = Len(owner.inputs)
                /\ owner'.inputs = Append(owner.inputs, in)
                /\ owner'.globalParameters = owner.globalParameters
       /\ \A index \in ParameterIndices :
             (\/ \E name \in EntryNames :
                    lastCall'.op = "setGlobalParameterName"
                       /\ setGlobalParameterName(index, name)
              \/ \E defaultValue \in EntryDefaults :
                    lastCall'.op = "setGlobalParameterDefaultValue"
                       /\ setGlobalParameterDefaultValue(index, defaultValue)) =>
                /\ KeptBut(owner.globalParameters, owner'.globalParameters, index)
                /\ owner'.inputs = owner.inputs
       /\ \A index \in InputIndices :
             (lastCall'.op = "setValues" /\ setValues(index, <<8>>)) =>
                /\ KeptBut(owner.inputs, owner'.inputs, index)
                /\ owner'.globalParameters = owner.globalParameters
       /\ lastCall'.op \notin {"setGlobalParameterName", "setGlobalParameterDefaultValue"} =>
             Kept(owner.globalParameters, owner'.globalParameters)
       /\ lastCall'.op # "setValues" =>
             Kept(owner.inputs, owner'.inputs)
       /\ Len(owner'.globalParameters) - Len(owner.globalParameters) =
             (IF lastCall'.op = "addGlobalParameter" THEN 1 ELSE 0)
       /\ Len(owner'.inputs) - Len(owner.inputs) =
             (IF lastCall'.op = "addInput" THEN 1 ELSE 0)]_vars

\* The second addGlobalParameter returned 1 after the first parameter had
\* been renamed, and the descriptor holds them in the order of the calls.
C15_Witness ==
    /\ lastCall.op = "addGlobalParameter"
    /\ lastCall.ret = 1
    /\ owner.globalParameters = <<GlobalParameterInfo("b", 1), GlobalParameterInfo("a", 4)>>
    /\ owner.inputs = <<FloatInput("f", <<6>>, <<1>>), FloatInput("f", <<8>>, <<1>>)>>

Created == lastCall.op = "initialize" /\ lastCall.thrown = NoError

\* C16: when a Context has been created, the host's parameter table holds, for
\* every parameter declared on the descriptor, that parameter's default value
\* under that parameter's name, and the first computeForce writes that
\* default value, as a float, to the parameter's slot of paramVec.
C16_DefaultTable ==
    [][/\ Created' =>
             \A i \in 1..Len(owner'.globalParameters) :
                /\ owner'.globalParameters[i].name \in DOMAIN parameters'
                /\ parameters'[owner'.globalParameters[i].name] =
                      owner'.globalParameters[i].defaultValue
       /\ (Created /\ Evaluated') =>
             \A i \in 1..Len(owner.globalParameters) :
                paramVec'[i] = FloatCast(owner.globalParameters[i].defaultValue)]_vars

\* The first computeForce of a Context has run for two parameters of one
\* name and different default values.
C16_Witness ==
    /\ Evaluated
    /\ Len(owner.globalParameters) = 2
    /\ owner.globalParameters[1].name = owner.globalParameters[2].name
    /\ owner.globalParameters[1].defaultValue = 1
    /\ owner.globalParameters[2].defaultValue = 4
    /\ parameters = getDefaultParameters(owner)
    /\ paramVec = <<FloatCast(4), FloatCast(4)>>

\* What the tensor t is to hold at session.Run according to the host's state
\* alone: the positions of the particle list, the box, the value of the
\* parameter the entry is named by, the engine's copy of an extra input.
FromHost(t, name) ==
    IF t.buf = "positionVec" THEN Gather(particleIndices, positions)
    ELSE IF t.buf = "boxVectors" THEN FlattenBox(box)
    ELSE IF t.buf = "paramVec"
    THEN (IF name \in DOMAIN parameters THEN <<FloatCast(parameters[name])>> ELSE <<>>)
    ELSE IF t.buf = "integerInputs" THEN integerInputs[t.index + 1].values
    ELSE floatInputs[t.index + 1].values

\* C17: what a computeForce call passes to inference and returns is a
\* function of the host's positions on the particle list, the host's box and
\* the host's parameter values at the call, and of nothing an earlier call
\* left behind: two calls in equal host states pass and return the same.
C17_HistoryFree ==
    [][Evaluated' =>
          /\ \A k \in 1..Len(runInputs') :
                runInputs'[k].data = FromHost(inputTensors[k], runInputs'[k].name)
          /\ outputTensors' =
                [energy |-> ModelEnergy(Gather(particleIndices, positions), 1),
                 forces |-> ModelForces(Gather(particleIndices, positions), 1)]
          /\ lastCall'.ret = outputTensors'.energy
          /\ \A i \in 1..Len(particleIndices) :
                (/\ particleIndices[i] \in 0..(Len(forces) - 1)
                 /\ \A j \in (i + 1)..Len(particleIndices) :
                       particleIndices[j] # particleIndices[i]) =>
                   forces'[particleIndices[i] + 1] = ForceRow(outputTensors'.forces, i - 1)]_vars

\* A computeForce call has passed to inference, as the box, the box of an
\* earlier call and not the one the host holds.
C17_Witness ==
    /\ Evaluated
    /\ \E k \in 1..Len(runInputs), b \in HostBoxes :
          /\ runInputs[k].name = "box"
          /\ b # box
          /\ runInputs[k].data = FlattenBox(b)

BagOf(s) == [x \in Range(s) |-> Cardinality({i \in 1..Len(s) : s[i] = x})]
\* The name, element type and shape of each input a descriptor o asks for,
\* with m particles in the list.
Declared(o, m) ==
    <<[name |-> "positions", elem |-> "float", shape |-> <<m, 3>>]>>
    \o (IF o.periodic THEN <<[name |-> "box", elem |-> "float", shape |-> <<3, 3>>]>>
        ELSE <<>>)
    \o [i \in 1..Len(o.globalParameters) |->
           [name |-> o.globalParameters[i].name, elem |-> "float", shape |-> <<1>>]]
    \o [i \in 1..Len(o.inputs) |->
           [name |-> o.inputs[i].name,
            elem |-> IF o.inputs[i].type = "IntegerInput" THEN "int" ELSE "float",
            shape |-> o.inputs[i].shape]]
\* The name, element type and shape of each bound input.
Bound(names, tensors, o, ints, floats, block) ==
    [k \in 1..Len(tensors) |->
        [name |-> ResolveName(names[k], o, ints, floats, block, TRUE),
         elem |-> tensors[k].elem,
         shape |-> tensors[k].shape]]

\* C18: an initialize that succeeds leaves a name list and a tensor list of
\* one length, 1 + (1 if periodic) + the number of parameters + the number of
\* extra inputs, that hold positions [M,3], box [3,3] exactly when the
\* descriptor is periodic, a [1] tensor under each parameter's name and a
\* tensor of its shape and element type under each extra input's name; and
\* every session.Run is asked for the outputs energy and forces and no other.
C18_BoundInputs ==
    [][/\ (lastCall'.op = "initialize" /\ implState' = "Initialized") =>
             /\ Len(inputNames') = Len(inputTensors')
             /\ Len(inputTensors') =
                   1 + (IF owner.periodic THEN 1 ELSE 0)
                     + Len(owner.globalParameters) + Len(owner.inputs)
             /\ BagOf(Bound(inputNames', inputTensors', owner, integerInputs',
                            floatInputs', nameBlock'))
                   = BagOf(Declared(owner, Len(particleIndices')))
       /\ runInputs' # runInputs =>
             (runOutputs' = <<"energy", "forces">> /\ Len(runInputs') = Len(inputNames))
       /\ lastCall'.op = "computeForce" =>
             (runOutputs' = <<>> \/ runOutputs' = <<"energy", "forces">>)]_vars

\* A periodic descriptor with a subset, two parameters and an input of each
\* kind has been initialized and evaluated.
C18_Witness ==
    /\ Evaluated
    /\ owner.periodic
    /\ Len(inputTensors) = 6
    /\ Len(runInputs) = 6
    /\ particleIndices = <<2, 0>>
    /\ runOutputs = <<"energy", "forces">>

GraphKey(p) ==
    IF p = "TensorRT" THEN "trt_cuda_graph_enable"
    ELSE IF p = "CUDA" THEN "enable_cuda_graph"
    ELSE "enable_hip_graph"
\* The chain entry for provider p carries the descriptor's DeviceIndex as
\* device_id and 1 or 0 under p's graph key as UseGraphs is true or false.
Configured(entry, p, o) ==
    /\ entry.name = p
    /\ entry.options[1] = <<"device_id", o.properties["DeviceIndex"]>>
    /\ entry.options[Len(entry.options)] =
          <<GraphKey(p), IF o.properties["UseGraphs"] = "true" THEN "1" ELSE "0">>
    /\ \A k \in 1..Len(entry.options) :
          entry.options[k][1] \in {"device_id", GraphKey(p), "use_tf32"}
Installed(order) == SelectSeq(order, LAMBDA p : p \in available)
Initialized == lastCall.op = "initialize"

\* C19: for provider Default, the providers of a session initialize creates
\* are those of TensorRT, CUDA, ROCm that are installed, in this order, each
\* with the descriptor's DeviceIndex and the graph option of UseGraphs; CPU
\* is not among them.
C19_DefaultChain ==
    [][(Initialized' /\ owner.provider = "Default" /\ session'.created) =>
          /\ Len(session'.providers) = Len(Installed(<<"TensorRT", "CUDA", "ROCm">>))
          /\ \A k \in 1..Len(session'.providers) :
                /\ Configured(session'.providers[k],
                              Installed(<<"TensorRT", "CUDA", "ROCm">>)[k], owner)
                /\ session'.providers[k].name # "CPU"]_vars

\* A session was created for Default on a host with TensorRT and ROCm but
\* no CUDA, for device 1 with graphs.
C19_Witness ==
    /\ Initialized
    /\ owner.provider = "Default"
    /\ session.created
    /\ available = {"TensorRT", "ROCm"}
    /\ Len(session.providers) = 2
    /\ session.providers[2] =
          [name |-> "ROCm",
           options |-> <<<<"device_id", "1">>, <<"enable_hip_graph", "1">>>>]

\* C20: for a requested provider TensorRT, CUDA or ROCm that is installed,
\* initialize probes that provider and no other, and a session it creates has
\* that provider alone; for the requested provider CPU, initialize probes
\* none and a session it creates has no provider.
C20_ExplicitChain ==
    [][Initialized' =>
          /\ (owner.provider \in GpuProviders /\ owner.provider \in available) =>
                /\ probed' \in {<<>>, <<owner.provider>>}
                /\ owner.properties["UseGraphs"] \in {"true", "false"} =>
                      probed' = <<owner.provider>>
                /\ lastCall'.thrown # Unavailable
                /\ session'.created =>
                      /\ Len(session'.providers) = 1
                      /\ Configured(session'.providers[1], owner.provider, owner)
          /\ owner.provider = "CPU" =>
                /\ probed' = <<>>
                /\ session'.created => session'.providers = <<>>]_vars

\* A session was created for CUDA on a host that has every provider.
C20_Witness ==
    /\ Initialized
    /\ owner.provider = "CUDA"
    /\ available = GpuProviders
    /\ session.created
    /\ probed = <<"CUDA">>
    /\ session.providers =
          <<[name |-> "CUDA",
             options |-> <<<<"device_id", "0">>, <<"use_tf32", "0">>,
                           <<"enable_cuda_graph", "0">>>>]>>

HostRow(pos, p) == <<FloatCast(pos[p + 1][1]), FloatCast(pos[p + 1][2]), FloatCast(pos[p + 1][3])>>
LastSlot(i) == \A j \in (i + 1)..Len(particleIndices) : particleIndices[j] # particleIndices[i]
Fed(feed, name) == {feed[k].data : k \in {j \in 1..Len(feed) : feed[j].name = name}}

\* C21: a computeForce call that reaches inference has put into row i of the
\* position buffer the host's position of particle particleIndices[i], as a
\* float and otherwise as the host gave it, periodic or not, and passes
\* that buffer as positions; a call that returns has assigned output force
\* row i to host particle particleIndices[i] (the last slot of a particle
\* decides).
C21_SlotMapping ==
    [][(lastCall'.op = "computeForce" /\ runInputs' # <<>>
           /\ lastCall'.thrown.type \in {"none", "Ort::Exception"}) =>
          /\ Len(positionVec') = 3 * Len(particleIndices)
          /\ Fed(runInputs', "positions") = {positionVec'}
          /\ \A i \in 1..Len(particleIndices) :
                particleIndices[i] \in Particles =>
                   /\ ForceRow(positionVec', i - 1) = HostRow(positions, particleIndices[i])
                   /\ (Evaluated' /\ LastSlot(i)) =>
                         forces'[particleIndices[i] + 1] =
                            ForceRow(outputTensors'.forces, i - 1)]_vars

\* A periodic engine with the unsorted list 2, 0 has been evaluated on
\* positions that lie outside the box.
C21_Witness ==
    /\ Evaluated
    /\ owner.periodic
    /\ particleIndices = <<2, 0>>
    /\ box = DefaultBox
    /\ ForceRow(positionVec, 0) = HostRow(positions, 2)
    /\ positionVec[1] > 20
    /\ forces[3] = ForceRow(outputTensors.forces, 0)
    /\ forces[1] = ForceRow(outputTensors.forces, 1)

RunFailed == OrtException("Run")

\* C22: a computeForce call whose session.Run fails ends with that failure:
\* it returns no energy, leaves the output tensors and every host force as
\* they were, and is the call that asked; its buffers may hold the new
\* positions.
C22_InferenceFails ==
    [][/\ \A scale \in ModelScales, faults \in BOOLEAN, stale \in BOOLEAN :
             (lastCall'.op = "computeForce" /\ computeForce(FALSE, scale, faults, stale)) =>
                /\ lastCall'.thrown # NoError
                /\ forces' = forces
                /\ outputTensors' = outputTensors
       /\ (lastCall'.op = "computeForce" /\ lastCall'.thrown = RunFailed) =>
             /\ lastCall'.ret = 0
             /\ forces' = forces
             /\ outputTensors' = outputTensors
             /\ runOutputs' = outputNames
             /\ implState' = implState]_vars

\* Inference failed on a call that had already gathered the new positions;
\* the forces of the call before are still the host's.
C22_Witness ==
    /\ lastCall.op = "computeForce"
    /\ lastCall.thrown = RunFailed
    /\ Len(particleIndices) > 0
    /\ positionVec = Gather(particleIndices, positions)
    /\ outputTensors # NoOutput
    /\ ModelForces(positionVec, 1) # outputTensors.forces
    /\ ModelForces(positionVec, 2) # outputTensors.forces

NothingBound ==
    /\ ~session.created
    /\ positionVec = <<>>
    /\ paramVec = <<>>
    /\ inputTensors = <<>>
    /\ inputNames = <<>>
    /\ integerInputs = <<>>
    /\ floatInputs = <<>>
BadUseGraphs(o) == o.properties["UseGraphs"] \notin {"true", "false"}
BadProvider(o) == o.provider \in GpuProviders /\ o.provider \notin available

\* C23: an initialize of a descriptor whose UseGraphs value is illegal or
\* whose requested provider is not installed ends with the illegal-value
\* error or the provider-unavailable error, whatever the extra inputs are,
\* never with the incorrect-length error, and with no session, buffer, tensor
\* or name bound.
C23_SelectionFirst ==
    (Initializing /\ (BadUseGraphs(owner) \/ BadProvider(owner))) =>
        /\ lastCall.thrown =
              (IF BadUseGraphs(owner) THEN OpenMMException("Illegal value for UseGraphs")
               ELSE Unavailable)
        /\ lastCall.thrown.msg # "Incorrect length for input"
        /\ implState = "Failed"
        /\ NothingBound

\* An initialize for CUDA, which is not installed, of a descriptor with an
\* input of the wrong length has ended with the provider-unavailable error.
C23_Witness ==
    /\ Initializing
    /\ owner.provider = "CUDA"
    /\ "CUDA" \notin available
    /\ owner.properties["UseGraphs"] = "true"
    /\ Mismatched(owner) # {}
    /\ lastCall.thrown = Unavailable

\* C24: while an engine stays Initialized, no step, and no computeForce call
\* among them, changes the size of positionVec or of paramVec, the particle
\* list, the copies of the extra inputs, or the bound tensors and names: they
\* stay as initialize left them.  (A call that writes outside a buffer has no
\* defined effect; nothing is said of it here.)
C24_EngineFrame ==
    [][(implState = "Initialized" /\ implState' = "Initialized" /\ ~memoryCorrupted') =>
          /\ Len(positionVec') = Len(positionVec)
          /\ Len(paramVec') = Len(paramVec)
          /\ particleIndices' = particleIndices
          /\ integerInputs' = integerInputs
          /\ floatInputs' = floatInputs
          /\ inputTensors' = inputTensors
          /\ inputNames' = inputNames
          /\ Len(positionVec') = 3 * Len(particleIndices')
          /\ Len(inputNames') = Len(inputTensors')]_vars

\* An engine has been evaluated after the descriptor it was made from was
\* given another input: the engine's lists are the old ones.
C24_Witness ==
    /\ Evaluated
    /\ ~memoryCorrupted
    /\ Len(owner.inputs) = 2
    /\ Len(particleIndices) = NumParticles
    /\ Len(positionVec) = 3 * NumParticles
    /\ Len(floatInputs) = 1
    /\ Len(integerInputs) = 0
    /\ Len(inputTensors) = Len(runInputs)

\* The entries of the bound list that stand for extra inputs: those that
\* follow positions, box and the global parameters.
BoundExtras ==
    SubSeq(Bound(inputNames, inputTensors, owner, integerInputs, floatInputs, nameBlock),
           Len(inputTensors) - Len(integerInputs) - Len(floatInputs) + 1,
           Len(inputTensors))
DeclaredExtras(o) ==
    [i \in 1..Len(o.inputs) |->
        [name |-> o.inputs[i].name,
         elem |-> IF o.inputs[i].type = "IntegerInput" THEN "int" ELSE "float",
         shape |-> o.inputs[i].shape]]

\* C25: after an initialize that succeeds, the tensors bound for the extra
\* inputs stand in the bound list in the order in which the inputs were
\* added to the descriptor, Integer and Float inputs alike.
C25_DeclarationOrder ==
    (Initializing /\ implState = "Initialized") => BoundExtras = DeclaredExtras(owner)

\* A Float input was added before an Integer input and the Integer input's
\* tensor is bound before the Float input's.
C25_Witness ==
    /\ Initializing
    /\ implState = "Initialized"
    /\ Len(owner.inputs) = 2
    /\ owner.inputs[1].type = "FloatInput"
    /\ owner.inputs[2].type = "IntegerInput"
    /\ BoundExtras[1].elem = "int"
    /\ BoundExtras[1].name = owner.inputs[2].name
    /\ BoundExtras[2].elem = "float"

HasDuplicate(pI) == \E i, j \in 1..Len(pI) : i # j /\ pI[i] = pI[j]

\* C26: an initialize of a descriptor whose particle list holds an index
\* twice or an index that is no particle of the system ends with an
\* OpenMMException, and no engine with such a list is ever Initialized.
C26_SubsetRejected ==
    /\ (Initializing /\ (HasDuplicate(owner.particleIndices)
                            \/ OutOfRange(owner.particleIndices, NumParticles))) =>
          (lastCall.thrown.type = "OpenMMException" /\ implState = "Failed")
    /\ implState = "Initialized" =>
          (~HasDuplicate(particleIndices) /\ ~OutOfRange(particleIndices, NumParticles))

\* An engine was initialized with a list that names a particle the system
\* does not have, and a computeForce call has read outside the positions.
C26_Witness ==
    /\ implState = "Initialized"
    /\ \E i \in 1..Len(particleIndices) : particleIndices[i] = NumParticles
    /\ lastCall.op = "computeForce"
    /\ memoryCorrupted

\* What a call with positions pos passes as positions and is to get as forces.
OwnPositions(c) == Gather(particleIndices, c.positions)
OwnForces(c) ==
    Scatter([p \in 1..NumParticles |-> <<0, 0, 0>>], particleIndices,
            ModelForces(OwnPositions(c), 1), 0)
Other(t) == CHOOSE u \in Threads : u # t

\* C27: a computeForce call that no other call overlapped passes its own
\* positions to inference and returns the forces of its own positions; a
\* call that another call overlapped may pass and return the other call's
\* (the reachable interleaving below), and what it passes is always the
\* gather of some caller's positions.
C27_Interleaving ==
    \A t \in Threads :
        /\ (calls[t].pc \in {"scatter", "done"} /\ ~calls[t].overlapped) =>
              Fed(calls[t].fed, "positions") = {OwnPositions(calls[t])}
        /\ (calls[t].pc = "done" /\ ~calls[t].overlapped) =>
              calls[t].forces = OwnForces(calls[t])
        /\ calls[t].pc \in {"scatter", "done"} =>
              \E pos \in HostPositions :
                  Fed(calls[t].fed, "positions") = {Gather(particleIndices, pos)}

\* Two calls with different positions overlapped: one passed the other's
\* positions to inference and returned the forces for them.
C27_Witness ==
    \E t \in Threads :
        /\ calls[t].pc = "done"
        /\ calls[Other(t)].pc = "done"
        /\ calls[t].positions # calls[Other(t)].positions
        /\ Fed(calls[t].fed, "positions") = {OwnPositions(calls[Other(t)])}
        /\ calls[t].forces = OwnForces(calls[Other(t)])
        /\ calls[t].forces # OwnForces(calls[t])

\* C28: the provider is not written to the document: whatever provider the
\* descriptor has, the descriptor read back from its document has provider
\* Default, and so has every descriptor deserialize has produced.
C28_ProviderNotPersisted ==
    /\ DeserializeForce(SerializeForce(owner)).thrown = NoError
    /\ DeserializeForce(SerializeForce(owner)).value.provider = "Default"
    /\ (lastCall.op = "deserialize" /\ lastCall.thrown = NoError) =>
          copy.provider = "Default"

\* A descriptor with provider CUDA and a subset was written and read back:
\* the subset arrived, the provider did not.
C28_Witness ==
    /\ owner.provider = "CUDA"
    /\ owner.particleIndices = <<2, 0>>
    /\ node = SerializeForce(owner)
    /\ lastCall.op = "deserialize"
    /\ lastCall.thrown = NoError
    /\ copy.particleIndices = owner.particleIndices
    /\ copy.provider = "Default"

SlotsOf(p) == {i \in 1..Len(particleIndices) : particleIndices[i] = p}
LastSlotOf(p) == CHOOSE i \in SlotsOf(p) : \A j \in SlotsOf(p) : j <= i

\* C29: a computeForce call that returns without an access outside a buffer
\* leaves the force of a particle no slot holds as it was and gives every
\* other particle the output row of the last slot that holds it, however
\* many slots hold it: rows of earlier slots reach no force entry.
C29_LastSlotDecides ==
    [][(lastCall'.op = "computeForce" /\ lastCall'.thrown = NoError
           /\ ~memoryCorrupted') =>
          \A p \in Particles :
             forces'[p + 1] =
                IF SlotsOf(p) = {} THEN forces[p + 1]
                ELSE ForceRow(outputTensors'.forces, LastSlotOf(p) - 1)]_vars

\* Particle 1 is held by slots 0 and 1, the model gave the two slots different
\* rows, and the particle has the row of slot 1.
C29_Witness ==
    /\ Evaluated
    /\ ~memoryCorrupted
    /\ particleIndices = <<1, 1>>
    /\ ForceRow(outputTensors.forces, 0) # ForceRow(outputTensors.forces, 1)
    /\ forces[2] = ForceRow(outputTensors.forces, 1)
    /\ forces[2] # ForceRow(outputTensors.forces, 0)

\* C30: in every computeForce call on an Initialized engine the position
\* buffer has three elements for each slot the call writes, every parameter
\* slot the call writes lies inside paramVec, and every particle index the
\* call reads a position at or writes a force at is one of 0..numParticles-1.
C30_IndicesInRange ==
    [][\A runs \in BOOLEAN, faults \in BOOLEAN, stale \in BOOLEAN :
          computeForce(runs, 1, faults, stale) =>
             /\ Len(positionVec) = 3 * Len(particleIndices)
             /\ ~WriteParams([paramVec |-> paramVec, thrown |-> NoError, oob |-> FALSE],
                             owner, parameters, 0).oob
             /\ ~OutOfRange(particleIndices, Len(positions))
             /\ ~OutOfRange(particleIndices, Len(forces))]_vars

\* With every particle index in range, a second parameter "a" was added
\* after initialize and a computeForce call has written past the one
\* element of paramVec.
C30_Witness ==
    /\ implState = "Initialized"
    /\ ~OutOfRange(particleIndices, NumParticles)
    /\ Len(paramVec) = 1
    /\ getNumGlobalParameters(owner) = 2
    /\ owner.globalParameters[2].name = "a"
    /\ lastCall.op = "computeForce"
    /\ lastCall.thrown = NoError
    /\ memoryCorrupted
====
